---- MODULE Spec2Model ----
(***************************************************************************)
(* A model of otelgen (github.com/edgedelta/otelgen): the endpoint         *)
(* resolver, the size parser, the log payload sizing and the rate and     *)
(* duration driven generation loop of the three signal types.              *)
(*                                                                         *)
(* Text is modelled as a sequence of one-character strings, so that the    *)
(* parsers work on the characters of their input as the Go code does.      *)
(***************************************************************************)
EXTENDS Integers, Sequences, FiniteSets, TLC

VARIABLES
    epParts,    \* how the endpoint text was put together (scheme, separator, host, port, tail)
    epInput,    \* the endpoint text handed to ParseEndpoint
    epResult,   \* what ParseEndpoint returned, or NotCalled
    epAgain,    \* what ParseEndpoint returned for the text of epResult.String(), or NotCalled
    arch,       \* the platform the binary was built for
    szParts,    \* how the size text was put together (number, unit) and how it is varied
    szInput,    \* the size text handed to ParseSize
    szVariant,  \* the same literal in another letter case or with white space added
    szResult,   \* what ParseSize returned for szInput, or NotCalled
    szAgain,    \* what ParseSize returned for szVariant, or NotCalled
    lgTarget,   \* the payload size handed to generateLogRecord
    lgBody,     \* the log body of the last record, or NotMade
    lpSignal,   \* the signal type of the run: traces, metrics or logs
    lpRate,     \* the value of --rate
    lpDuration, \* the parsed --duration, in clock steps
    lpPc,       \* where the Generate function is
    lpNow,      \* the clock
    lpTicker,   \* the ticker: its state, the time of its next tick, its channel
    lpTimer,    \* the one-shot deadline timer: its state and its channel
    lpCount,    \* count
    lpPrinted,  \* the counts that were printed, in order
    lpDefers,   \* the deferred calls, the one to run first at the end
    lpEvents,   \* the calls into exporter and provider and the report of the count, in order
    lpTickFault, \* the number of the first tick whose record failed, 0 when none did
    lpVerbose,  \* the value of --verbose
    lpProbed,   \* whether the connectivity-test span of a verbose trace run was sent
    lpFaults,   \* the calls of the run that failed
    exSignal, \* the signal type whose exporter is built
    exInsecureSkip, \* the value of --insecure-skip-verify
    exExporter, \* the exporter that was built, or NotCalled
    exRebuilt, \* whether the exporter is the second one of a verbose trace run
    exVerbose, \* the value of --verbose
    bpBatchSize, \* the value of --batch-size
    bpOptions, \* the options handed to NewBatchProcessor, or NotCalled
    bpQueue, \* the number of records waiting in the processor's queue
    bpBatch, \* the number of records in the last outbound batch
    bpEmitted, \* the number of records the loop has emitted
    mtPayloadSize, \* the payload size runMetrics got from --size
    mtPc, \* where the metrics loop is: running or done
    mtCount, \* count of the metrics loop
    mtCounter, \* the total of the counter otelgen.requests
    mtSamples, \* the number of samples of the histogram otelgen.duration
    mtGauge, \* the number of observations of the gauge otelgen.cpu_usage
    mtAttrs, \* the attribute keys of the points the last tick recorded
    trPayloadSize, \* the payload size handed to generateTrace
    trPc, \* where generateTrace is
    trChild, \* i of the loop over the child spans
    trEvents, \* the spans started and ended, in order
    trPadding, \* what GeneratePadding returned for trPayloadSize, or NotCalled
    lpActive,  \* the number of tick handlers in progress
    lpSent,    \* the time the tick waiting in the ticker's channel was sent, -1 without one
    lpLast,    \* the time the tick taken last was sent, -1 before the first
    lpExporter,\* the exporter the run sends through: none, first or second
    lpDown     \* the exporters and providers whose shutdown has begun

epVars == <<epParts, epInput, epResult, epAgain>>

szVars == <<arch, szParts, szInput, szVariant, szResult, szAgain>>

lgVars == <<lgTarget, lgBody>>

lpVars == <<lpSignal, lpRate, lpDuration, lpPc, lpNow, lpTicker, lpTimer, lpCount, lpPrinted,
           lpDefers,
           lpEvents,
           lpTickFault,
           lpVerbose,
           lpProbed,
           lpFaults,
           lpActive,
           lpSent,
           lpLast,
           lpExporter,
           lpDown>>

exVars == <<exSignal, exInsecureSkip, exExporter, exRebuilt, exVerbose>>

bpVars == <<bpBatchSize, bpOptions, bpQueue, bpBatch, bpEmitted>>

mtVars == <<mtPayloadSize, mtPc, mtCount, mtCounter, mtSamples, mtGauge, mtAttrs>>

trVars == <<trPayloadSize, trPc, trChild, trEvents, trPadding>>

vars == <<epParts, epInput, epResult, epAgain, arch, szParts, szInput, szVariant, szResult, szAgain,
          lgTarget, lgBody, lpSignal, lpRate, lpDuration, lpPc, lpNow, lpTicker, lpTimer,
          lpCount, lpPrinted, lpDefers,
          lpEvents,
          lpTickFault,
          lpVerbose,
          lpProbed,
          lpFaults,
          exSignal, exInsecureSkip, exExporter, exRebuilt, exVerbose,
          bpBatchSize, bpOptions, bpQueue, bpBatch, bpEmitted,
          mtPayloadSize, mtPc, mtCount, mtCounter, mtSamples, mtGauge, mtAttrs,
          trPayloadSize, trPc, trChild, trEvents, trPadding,
          lpActive,
          lpSent,
          lpLast,
          lpExporter,
          lpDown>>

NotCalled == [called |-> FALSE]

----------------------------------------------------------------------------
(* Characters and strings *)

LowerAlpha == <<"a","b","c","d","e","f","g","h","i","j","k","l","m",
                "n","o","p","q","r","s","t","u","v","w","x","y","z">>

UpperAlpha == <<"A","B","C","D","E","F","G","H","I","J","K","L","M",
                "N","O","P","Q","R","S","T","U","V","W","X","Y","Z">>

DigitChars == {"0","1","2","3","4","5","6","7","8","9"}

IsLower(c) == \E i \in 1..Len(LowerAlpha) : LowerAlpha[i] = c

IsUpper(c) == \E i \in 1..Len(UpperAlpha) : UpperAlpha[i] = c

IsLetter(c) == IsLower(c) \/ IsUpper(c)

IsDigit(c) == c \in DigitChars

\* strings.ToLower on one ASCII character
ToLowerChar(c) ==
    IF IsUpper(c)
    THEN LowerAlpha[CHOOSE i \in 1..Len(UpperAlpha) : UpperAlpha[i] = c]
    ELSE c

ToUpperChar(c) ==
    IF IsLower(c)
    THEN UpperAlpha[CHOOSE i \in 1..Len(LowerAlpha) : LowerAlpha[i] = c]
    ELSE c

ToLower(s) == [i \in 1..Len(s) |-> ToLowerChar(s[i])]

ToUpper(s) == [i \in 1..Len(s) |-> ToUpperChar(s[i])]

MinOf(S) == CHOOSE x \in S : \A y \in S : x <= y

MaxOf(S) == CHOOSE x \in S : \A y \in S : x >= y

\* strings.Index for a one-character needle, 1-based; 0 when absent
IndexChar(s, c) ==
    LET I == {i \in 1..Len(s) : s[i] = c}
    IN  IF I = {} THEN 0 ELSE MinOf(I)

\* strings.LastIndex for a one-character needle, 1-based; 0 when absent
LastIndexChar(s, c) ==
    LET I == {i \in 1..Len(s) : s[i] = c}
    IN  IF I = {} THEN 0 ELSE MaxOf(I)

\* s[from:] of Go with a 1-based first index
From(s, i) == IF i > Len(s) THEN <<>> ELSE SubSeq(s, i, Len(s))

\* s[:to] of Go, keeping the characters 1..i
UpTo(s, i) == IF i < 1 THEN <<>> ELSE SubSeq(s, 1, i)

HasPrefix(s, p) == Len(s) >= Len(p) /\ SubSeq(s, 1, Len(p)) = p

HasSuffix(s, p) == Len(s) >= Len(p) /\ SubSeq(s, Len(s) - Len(p) + 1, Len(s)) = p

\* strings.Cut(s, c): the text before the first c (all of s when there is none)
CutBefore(s, c) == IF IndexChar(s, c) = 0 THEN s ELSE UpTo(s, IndexChar(s, c) - 1)

----------------------------------------------------------------------------
(* net/url as ParseEndpoint uses it: url.Parse, URL.Hostname, URL.Port *)

UrlError(why) == [err |-> TRUE, why |-> why, Scheme |-> <<>>, Host |-> <<>>]

\* the first position at which getScheme stops scanning, 0 when it reaches the end
SchemeStop(raw) ==
    LET I == {i \in 1..Len(raw) :
                 ~ IsLetter(raw[i])
                 /\ ~ (i > 1 /\ (IsDigit(raw[i]) \/ raw[i] \in {"+", "-", "."}))}
    IN  IF I = {} THEN 0 ELSE MinOf(I)

\* net/url getScheme: [err, scheme, rest]
getScheme(raw) ==
    LET i == SchemeStop(raw)
    IN  IF i = 0 \/ raw[i] # ":"
        THEN [err |-> FALSE, scheme |-> <<>>, rest |-> raw]
        ELSE IF i = 1
        THEN [err |-> TRUE, scheme |-> <<>>, rest |-> <<>>]
        ELSE [err |-> FALSE, scheme |-> UpTo(raw, i - 1), rest |-> From(raw, i + 1)]

\* net/url validOptionalPort: "" or ":" followed by digits only
validOptionalPort(port) ==
    \/ port = <<>>
    \/ /\ port[1] = ":"
       /\ \A i \in 2..Len(port) : IsDigit(port[i])

\* the characters net/url accepts unescaped in a host (shouldEscape, encodeHost)
HostCharOK(c) ==
    \/ IsLetter(c)
    \/ IsDigit(c)
    \/ c \in {"-", "_", ".", "~", "!", "$", "&", "'", "(", ")", "*", "+", ",",
              ";", "=", ":", "[", "]", "<", ">"}

\* net/url unescape of a host or of the zone of an IPv6 literal, for ASCII text:
\* "%25" stands for "%", any other escape of an ASCII character and a
\* character that must be escaped are errors: [err, text]
RECURSIVE unescape(_)
unescape(s) ==
    IF s = <<>>
    THEN [err |-> FALSE, text |-> <<>>]
    ELSE IF s[1] = "%"
    THEN IF HasPrefix(s, <<"%", "2", "5">>)
         THEN LET rest == unescape(From(s, 4))
              IN  [err |-> rest.err, text |-> <<"%">> \o rest.text]
         ELSE [err |-> TRUE, text |-> <<>>]
    ELSE IF ~ HostCharOK(s[1])
    THEN [err |-> TRUE, text |-> <<>>]
    ELSE LET rest == unescape(Tail(s))
         IN  [err |-> rest.err, text |-> <<s[1]>> \o rest.text]

\* net/url parseHost: TRUE when the authority is accepted as a host
parseHostOK(host) ==
    /\ IF HasPrefix(host, <<"[">>)
       THEN /\ LastIndexChar(host, "]") # 0
            /\ validOptionalPort(From(host, LastIndexChar(host, "]") + 1))
       ELSE \/ LastIndexChar(host, ":") = 0
            \/ validOptionalPort(From(host, LastIndexChar(host, ":")))
    /\ ~ unescape(host).err

\* url.Parse restricted to printable ASCII without "@"
UrlParse(rawURL) ==
    LET u    == CutBefore(rawURL, "#")
        sch  == getScheme(u)
        rest == CutBefore(sch.rest, "?")
        auth == CutBefore(From(rest, 3), "/")
    IN  IF sch.err
        THEN UrlError("missing protocol scheme")
        ELSE IF ~ HasPrefix(rest, <<"/">>) /\ sch.scheme # <<>>
        THEN \* a rootless path is opaque: no host
             [err |-> FALSE, why |-> "", Scheme |-> ToLower(sch.scheme), Host |-> <<>>]
        ELSE IF ~ HasPrefix(rest, <<"/">>) /\ IndexChar(CutBefore(rest, "/"), ":") # 0
        THEN UrlError("first path segment in URL cannot contain colon")
        ELSE IF (sch.scheme # <<>> \/ ~ HasPrefix(rest, <<"/", "/", "/">>))
                /\ HasPrefix(rest, <<"/", "/">>)
        THEN IF parseHostOK(auth)
             THEN [err |-> FALSE, why |-> "", Scheme |-> ToLower(sch.scheme),
                   Host |-> unescape(auth).text]
             ELSE UrlError("invalid host")
        ELSE [err |-> FALSE, why |-> "", Scheme |-> ToLower(sch.scheme), Host |-> <<>>]

\* net/url splitHostPort: <<host, port>>
splitHostPort(hostPort) ==
    LET colon == LastIndexChar(hostPort, ":")
        split == colon # 0 /\ validOptionalPort(From(hostPort, colon))
        host  == IF split THEN UpTo(hostPort, colon - 1) ELSE hostPort
        port  == IF split THEN From(hostPort, colon + 1) ELSE <<>>
    IN  IF HasPrefix(host, <<"[">>) /\ HasSuffix(host, <<"]">>)
        THEN <<SubSeq(host, 2, Len(host) - 1), port>>
        ELSE <<host, port>>

Hostname(u) == splitHostPort(u.Host)[1]

Port(u) == splitHostPort(u.Host)[2]

----------------------------------------------------------------------------
(* The endpoint resolver *)

GrpcDefaultPort == <<"4", "3", "1", "7">>

HttpDefaultPort == <<"4", "3", "1", "8">>

\* Protocol.String() of the four protocols
Protocols == {"grpc", "grpcs", "http", "https"}

\* Endpoint.IsGRPC
IsGRPC(protocol) == protocol \in {"grpc", "grpcs"}

\* Endpoint.IsHTTP
IsHTTP(protocol) == protocol \in {"http", "https"}

EndpointError(why) == [called |-> TRUE, err |-> TRUE, why |-> why]

\* the scheme switch of ParseEndpoint: the protocol, or "unsupported"
ProtocolOf(scheme) ==
    LET s == ToLower(scheme)
    IN  IF s = <<"g", "r", "p", "c">> THEN "grpc"
        ELSE IF s = <<"g", "r", "p", "c", "s">> THEN "grpcs"
        ELSE IF s = <<"h", "t", "t", "p">> THEN "http"
        ELSE IF s = <<"h", "t", "t", "p", "s">> THEN "https"
        ELSE "unsupported"

\* a bug that would secure only https
SecureOf_HttpsOnly(protocol) == protocol = "https"

\* the Secure flag the scheme switch sets beside the protocol
SecureOf(protocol) == protocol \in {"grpcs", "https"}

\* the default port ParseEndpoint applies when the URL carries none
DefaultPort(protocol) == IF IsGRPC(protocol) THEN GrpcDefaultPort ELSE HttpDefaultPort

\* a bug that would apply the default port whatever the URL carries
ResolvePort_AlwaysDefault(u, protocol) == DefaultPort(protocol)

\* a bug that would leave out the check of the host
HostMissing_Unchecked(u) == FALSE

\* the check that ends ParseEndpoint: the URL names no host
HostMissing(u) == Hostname(u) = <<>>

\* "Determine port": the port of the URL, or the default when it has none
ResolvePort(u, protocol) == IF Port(u) = <<>> THEN DefaultPort(protocol) ELSE Port(u)

ParseEndpoint(endpoint) ==
    IF endpoint = <<>>
    THEN EndpointError("endpoint cannot be empty")
    ELSE LET u        == UrlParse(endpoint)
             protocol == ProtocolOf(u.Scheme)
             port     == ResolvePort(u, protocol)
         IN  IF u.err
             THEN EndpointError("failed to parse endpoint")
             ELSE IF protocol = "unsupported"
             THEN EndpointError("unsupported protocol")
             ELSE IF HostMissing(u)
             THEN EndpointError("host cannot be empty")
             ELSE [called |-> TRUE, err |-> FALSE, why |-> "",
                   Protocol |-> protocol, Host |-> Hostname(u),
                   Port |-> port, Secure |-> SecureOf(protocol)]

----------------------------------------------------------------------------
(* Whole numbers beyond the range of the model checker's integers: a number *)
(* is the sequence of its digits in base LimbBase, least significant first, *)
(* without leading zero digits; zero is the empty sequence.                 *)

LimbBits == 15

LimbBase == 32768

RECURSIVE Norm(_)
Norm(x) ==
    IF x = <<>> THEN <<>>
    ELSE IF x[Len(x)] = 0 THEN Norm(SubSeq(x, 1, Len(x) - 1))
    ELSE x

RECURSIVE ToBig(_)
ToBig(n) == IF n = 0 THEN <<>> ELSE <<n % LimbBase>> \o ToBig(n \div LimbBase)

\* x * m + c for small m and c
RECURSIVE MulAdd(_, _, _)
MulAdd(x, m, c) ==
    IF x = <<>>
    THEN ToBig(c)
    ELSE LET v == (Head(x) * m) + c
         IN  <<v % LimbBase>> \o MulAdd(Tail(x), m, v \div LimbBase)

\* <<quotient, remainder>> of x by a small m; the quotient keeps the length of x
RECURSIVE DivSmall(_, _)
DivSmall(x, m) ==
    IF x = <<>>
    THEN << <<>>, 0 >>
    ELSE LET hi == DivSmall(Tail(x), m)
             v  == (hi[2] * LimbBase) + Head(x)
         IN  << <<v \div m>> \o hi[1], v % m >>

\* floor(x / 10^d), and whether anything was cut off
RECURSIVE DivPow10(_, _)
DivPow10(x, d) ==
    IF d = 0
    THEN [q |-> x, sticky |-> FALSE]
    ELSE LET r    == DivSmall(x, 10)
             rest == DivPow10(Norm(r[1]), d - 1)
         IN  [q |-> rest.q, sticky |-> rest.sticky \/ r[2] # 0]

LimbAt(x, i) == IF i >= 1 /\ i <= Len(x) THEN x[i] ELSE 0

\* the number of bits of a limb 0 < v < LimbBase
LimbLen(v) == CHOOSE b \in 1..LimbBits : 2^(b - 1) <= v /\ v < 2^b

BitLen(x) == IF x = <<>> THEN 0 ELSE (LimbBits * (Len(x) - 1)) + LimbLen(x[Len(x)])

\* x * 2^n
ShiftLeft(x, n) ==
    LET w == n \div LimbBits
        r == n % LimbBits
        y == [i \in 1..(Len(x) + 1) |->
                 ((LimbAt(x, i) * 2^r) % LimbBase) + (LimbAt(x, i - 1) \div 2^(LimbBits - r))]
    IN  IF x = <<>> THEN <<>> ELSE Norm([i \in 1..w |-> 0] \o y)

\* floor(x / 2^n)
ShiftRight(x, n) ==
    LET w == n \div LimbBits
        r == n % LimbBits
        y == From(x, w + 1)
    IN  Norm([i \in 1..Len(y) |->
                 (y[i] \div 2^r) + ((LimbAt(y, i + 1) % 2^r) * 2^(LimbBits - r))])

\* bit n of x, bit 0 being the least significant
BitAt(x, n) == (LimbAt(x, (n \div LimbBits) + 1) \div 2^(n % LimbBits)) % 2

\* x is a multiple of 2^n
LowBitsZero(x, n) ==
    /\ \A i \in 1..(n \div LimbBits) : LimbAt(x, i) = 0
    /\ LimbAt(x, (n \div LimbBits) + 1) % (2^(n % LimbBits)) = 0

IsOdd(x) == x # <<>> /\ x[1] % 2 = 1

----------------------------------------------------------------------------
(* float64 and int64 as ParseSize uses them *)

MantissaBits == 53

Int64Bits == 63

DigitSeq == <<"0", "1", "2", "3", "4", "5", "6", "7", "8", "9">>

DigitVal(c) == (CHOOSE i \in 1..10 : DigitSeq[i] = c) - 1

\* the whole number a run of digits spells
RECURSIVE DigitsToBig(_, _)
DigitsToBig(ds, acc) ==
    IF ds = <<>> THEN acc ELSE DigitsToBig(Tail(ds), MulAdd(acc, 10, DigitVal(Head(ds))))

DotCount(numStr) == Cardinality({i \in 1..Len(numStr) : numStr[i] = "."})

\* strconv.ParseFloat(numStr, 64) on a run of digits and points: the nearest
\* float64, as mantissa * 2^exp, ties to the even mantissa; an error for a run
\* with two points or without a digit
ParseFloat(numStr) ==
    LET dot    == IndexChar(numStr, ".")
        digits == SelectSeq(numStr, IsDigit)
        d      == IF dot = 0 THEN 0 ELSE Len(numStr) - dot
        a      == DigitsToBig(digits, <<>>)
        s      == 4 + d
        dv     == DivPow10([i \in 1..s |-> 0] \o a, d)
        drop   == BitLen(dv.q) - MantissaBits
        m      == ShiftRight(dv.q, drop)
        up     == /\ BitAt(dv.q, drop - 1) = 1
                  /\ (dv.sticky \/ ~ LowBitsZero(dv.q, drop - 1) \/ IsOdd(m))
    IN  IF DotCount(numStr) > 1 \/ digits = <<>>
        THEN [err |-> TRUE, mant |-> <<>>, exp |-> 0]
        ELSE IF a = <<>>
        THEN [err |-> FALSE, mant |-> <<>>, exp |-> 0]
        ELSE [err |-> FALSE,
              mant |-> IF up THEN MulAdd(m, 1, 1) ELSE m,
              exp  |-> drop - (LimbBits * s)]

Platforms == {"amd64", "arm64"}

\* int64(f) for f = mant * 2^exp >= 0: truncation; beyond the range of int64 Go
\* leaves the value to the implementation: the smallest int64 on amd64, the
\* largest on arm64
ToInt64(mant, exp, platform) ==
    LET v == IF exp >= 0 THEN ShiftLeft(mant, exp) ELSE ShiftRight(mant, 0 - exp)
    IN  IF BitLen(v) <= Int64Bits
        THEN [neg |-> FALSE, mag |-> v]
        ELSE IF platform = "amd64"
        THEN [neg |-> TRUE, mag |-> ShiftLeft(<<1>>, Int64Bits)]
        ELSE [neg |-> FALSE, mag |-> ShiftRight(ShiftLeft(<<1>>, Int64Bits + 1), 1)]

----------------------------------------------------------------------------
(* The size parser *)

WhiteSpace == {" ", "\t"}

\* strings.TrimSpace
TrimSpace(s) ==
    LET I == {i \in 1..Len(s) : s[i] \notin WhiteSpace}
    IN  IF I = {} THEN <<>> ELSE SubSeq(s, MinOf(I), MaxOf(I))

\* the lexing loop of ParseSize: the leading run of digits and points
NumRunLen(s) ==
    LET I == {i \in 1..Len(s) : ~ (IsDigit(s[i]) \/ s[i] = ".")}
    IN  IF I = {} THEN Len(s) ELSE MinOf(I) - 1

\* a bug that would take an unknown unit for bytes
UnitShift_Lenient(unit) ==
    IF unit \in {<<"k", "b">>, <<"k">>} THEN 10
    ELSE IF unit \in {<<"m", "b">>, <<"m">>} THEN 20
    ELSE IF unit \in {<<"g", "b">>, <<"g">>} THEN 30
    ELSE 0

\* the unit switch: the multiplier as a power of two, -1 for an unknown unit
UnitShift(unit) ==
    IF unit \in {<<"b">>, <<>>} THEN 0
    ELSE IF unit \in {<<"k", "b">>, <<"k">>} THEN 10
    ELSE IF unit \in {<<"m", "b">>, <<"m">>} THEN 20
    ELSE IF unit \in {<<"g", "b">>, <<"g">>} THEN 30
    ELSE 0 - 1

SizeError(why) == [called |-> TRUE, err |-> TRUE, why |-> why]

SizeOK(bytes) == [called |-> TRUE, err |-> FALSE, why |-> "", bytes |-> bytes]

\* a bug that would lower the case after the unit was read
Normalize_TrimOnly(sizeStr) == TrimSpace(sizeStr)

\* strings.ToLower(strings.TrimSpace(sizeStr))
Normalize(sizeStr) == ToLower(TrimSpace(sizeStr))

ParseSize(sizeStr, platform) ==
    IF sizeStr = <<>>
    THEN SizeOK([neg |-> FALSE, mag |-> <<>>])
    ELSE LET str    == Normalize(sizeStr)
             numStr == UpTo(str, NumRunLen(str))
             unit   == From(str, NumRunLen(str) + 1)
             num    == ParseFloat(numStr)
             shift  == UnitShift(unit)
         IN  IF numStr = <<>>
             THEN SizeError("invalid size format")
             ELSE IF num.err
             THEN SizeError("invalid size number")
             ELSE IF shift < 0
             THEN SizeError("unknown size unit")
             ELSE SizeOK(ToInt64(num.mant, num.exp + shift, platform))

----------------------------------------------------------------------------
(* Endpoint texts: a scheme, a separator, a host, a port and a tail.  The  *)
(* parts are kept beside the text so that a property can speak of what the *)
(* text was made of; ParseEndpoint reads the text alone.                   *)

RECURSIVE CaseVariants(_)
CaseVariants(s) ==
    IF s = <<>>
    THEN {<<>>}
    ELSE {<<c>> \o t : c \in {ToLowerChar(Head(s)), ToUpperChar(Head(s))},
                       t \in CaseVariants(Tail(s))}

SchemeLiteral(protocol) ==
    CASE protocol = "grpc"  -> <<"g", "r", "p", "c">>
      [] protocol = "grpcs" -> <<"g", "r", "p", "c", "s">>
      [] protocol = "http"  -> <<"h", "t", "t", "p">>
      [] protocol = "https" -> <<"h", "t", "t", "p", "s">>

\* every spelling of the four scheme literals, in every letter case
KnownSchemes ==
    UNION {{[text |-> t, proto |-> p] : t \in CaseVariants(SchemeLiteral(p))} : p \in Protocols}

\* the four literals in lower case and one mixed spelling of each
PlainSchemes ==
    {[text |-> SchemeLiteral(p), proto |-> p] : p \in Protocols}
    \cup {[text |-> <<"G", "r", "P", "c">>, proto |-> "grpc"],
          [text |-> <<"H", "T", "T", "P", "S">>, proto |-> "https"]}

\* texts that are none of the four schemes
OtherSchemes ==
    {[text |-> t, proto |-> "none"] :
        t \in {<<>>, <<"f", "t", "p">>, <<"g", "r", "p">>, <<"h", "t", "t", "p", "x">>,
               <<"g", "r", "p", "c", "2">>, <<"t", "c", "p">>}}

Separators == {<<":", "/", "/">>, <<":">>, <<>>, <<"/", "/">>}

GoodHosts ==
    {<<"h">>,
     <<"l", "o", "c", "a", "l", "h", "o", "s", "t">>,
     <<"e", "x", "a", "m", "p", "l", "e", ".", "c", "o", "m">>,
     <<"E", "x", ".", "I", "O">>,
     <<"1", "0", ".", "0", ".", "0", ".", "1">>,
     <<"[", ":", ":", "1", "]">>}

\* hosts with an escaped percent sign: a name, and an IPv6 literal with a zone
EscapedHosts ==
    {<<"a", "%", "2", "5", "b">>,
     <<"[", "f", "e", "8", "0", ":", ":", "1", "%", "2", "5", "e", "t", "h", "0", "]">>}

\* no host at all, and a host with a character url.Parse rejects
BadHosts == {<<>>, <<"a", " ", "b">>}

PortDigits ==
    {<<"4", "4", "3">>, <<"8", "0", "8", "0">>, <<"8", "0">>, <<"0">>,
     <<"4", "3", "1", "7">>, <<"0", "0", "8", "0">>}

\* an explicit port, no port, a bare colon, and a port that is no number
PortParts ==
    {[kind |-> "digits", text |-> <<":">> \o d, digits |-> d] : d \in PortDigits}
    \cup {[kind |-> "none", text |-> <<>>, digits |-> <<>>],
          [kind |-> "colon", text |-> <<":">>, digits |-> <<>>],
          [kind |-> "bad", text |-> <<":", "x", "1">>, digits |-> <<>>]}

Tails == {<<>>, <<"/">>, <<"/", "v", "1", "/", "l", "o", "g", "s">>,
          <<"?", "k", "=", "v">>, <<"#", "f">>}

EndpointParts ==
    {[scheme |-> s, sep |-> <<":", "/", "/">>, host |-> <<"h">>, port |-> p, tail |-> <<>>] :
        s \in KnownSchemes, p \in {q \in PortParts : q.kind \in {"none", "digits"}}}
    \cup
    {[scheme |-> s, sep |-> sp, host |-> h, port |-> p, tail |-> t] :
        s \in PlainSchemes \cup OtherSchemes, sp \in Separators,
        h \in GoodHosts \cup BadHosts, p \in PortParts, t \in Tails}
    \cup
    {[scheme |-> s, sep |-> <<":", "/", "/">>, host |-> h, port |-> p, tail |-> <<>>] :
        s \in PlainSchemes, h \in EscapedHosts,
        p \in {q \in PortParts : q.kind \in {"none", "digits"}}}

EndpointText(parts) ==
    parts.scheme.text \o parts.sep \o parts.host \o parts.port.text \o parts.tail

\* scheme://host[:port] with one of the four schemes and a host url.Parse accepts
WellFormed(parts) ==
    /\ parts.scheme.proto \in Protocols
    /\ parts.sep = <<":", "/", "/">>
    /\ parts.host \in GoodHosts
    /\ parts.port.kind \in {"none", "digits"}

\* the host without the brackets of an IPv6 literal
BareHost(h) ==
    IF HasPrefix(h, <<"[">>) /\ HasSuffix(h, <<"]">>) THEN SubSeq(h, 2, Len(h) - 1) ELSE h

----------------------------------------------------------------------------
(* Size texts: a run of digits and points followed by a unit, and a second  *)
(* spelling of the same literal.  ParseSize reads the texts alone.          *)

MaxNumLen == 3

NumChars == {"0", "1", "5", "."}

RECURSIVE RunsUpTo(_)
RunsUpTo(n) ==
    IF n = 0
    THEN {<<>>}
    ELSE RunsUpTo(n - 1)
         \cup {<<c>> \o r : c \in NumChars, r \in {q \in RunsUpTo(n - 1) : Len(q) = n - 1}}

\* runs with other digits, and numbers near and beyond the precision of float64
\* and the range of int64
ExtraRuns ==
    {<<"0">>, <<"3">>, <<"7">>, <<"5", "0", "0">>, <<"0", ".", "5">>, <<"1", "0", "2", "4">>,
     <<"8", "8", "5", "2", "1", "5", "3", ".", "3">>,
     <<"9", "0", "0", "7", "1", "9", "9", "2", "5", "4", "7", "4", "0", "9", "9", "3">>,
     <<"9", "9", "9", "9", "9", "9", "9", "9", "9", "9">>}

NumRuns == RunsUpTo(MaxNumLen) \cup ExtraRuns

UnitLiterals ==
    {<<>>, <<"b">>, <<"k", "b">>, <<"k">>, <<"m", "b">>, <<"m">>, <<"g", "b">>, <<"g">>}

\* every spelling of the units, in every letter case
KnownUnits == UNION {CaseVariants(u) : u \in UnitLiterals}

OtherUnits == {<<"x", "b">>, <<"t", "b">>, <<"k", "i", "b">>, <<"b", "b">>, <<"e", "3">>}

Variations == {"again", "upper", "lead", "trail", "both", "gap"}

SizeParts ==
    {[num |-> n, unit |-> u, how |-> h] :
        n \in NumRuns, u \in KnownUnits \cup OtherUnits, h \in Variations}

SizeText(parts) == parts.num \o parts.unit

\* the literal spelled another way
SizeVariant(parts) ==
    CASE parts.how = "again" -> SizeText(parts)
      [] parts.how = "upper" -> ToUpper(SizeText(parts))
      [] parts.how = "lead"  -> <<" ">> \o SizeText(parts)
      [] parts.how = "trail" -> SizeText(parts) \o <<"\t">>
      [] parts.how = "both"  -> <<" ", "\t">> \o SizeText(parts) \o <<" ">>
      [] parts.how = "gap"   -> parts.num \o <<" ">> \o parts.unit

\* the run is a decimal number: digits with at most one point
IsDecimal(num) ==
    /\ \E i \in 1..Len(num) : IsDigit(num[i])
    /\ \A i, j \in 1..Len(num) : (num[i] = "." /\ num[j] = ".") => i = j

\* <number>[unit] with a unit of the grammar
ValidLiteral(parts) == IsDecimal(parts.num) /\ parts.unit \in KnownUnits

----------------------------------------------------------------------------
(* The log body: generateRealisticLogPayload.  A JSON value is kept as its   *)
(* kind and the number of bytes of its content, a document as a function     *)
(* from its keys to values; the serialized length is computed from that as   *)
(* json.Marshal writes it.                                                   *)

Str(n) == [kind |-> "string", len |-> n, esc |-> 0]

\* a string with e characters that are written as a two-byte escape
StrEsc(n, e) == [kind |-> "string", len |-> n, esc |-> e]

\* a number of n digits
Num(n) == [kind |-> "number", len |-> n]

Obj(f) == [kind |-> "object", fields |-> f]

RECURSIVE MarshalLen(_), FieldsLen(_, _)
\* len(json.Marshal(v)): "..." for a string, the digits of a number,
\* {"key":value,...} for a map
MarshalLen(v) ==
    CASE v.kind = "string" -> v.len + v.esc + 2
      [] v.kind = "number" -> v.len
      [] v.kind = "object" ->
            LET n == Cardinality(DOMAIN v.fields)
            IN  2 + FieldsLen(v.fields, DOMAIN v.fields) + (IF n > 0 THEN n - 1 ELSE 0)

\* the members "key":value of a map, without the commas between them
FieldsLen(f, keys) ==
    IF keys = {} THEN 0
    ELSE LET k == CHOOSE x \in keys : TRUE
         IN  Len(k) + 3 + MarshalLen(f[k]) + FieldsLen(f, keys \ {k})

logMessages ==
    { "Request processed successfully", "Database query executed", "Cache hit for key",
      "User authentication completed", "API request received",
      "Processing payment transaction", "Sending notification", "Background job started",
      "File uploaded successfully", "Configuration reloaded" }

logLevels == {"INFO", "WARN", "ERROR", "DEBUG"}

endpoints ==
    { "/api/v1/users", "/api/v1/orders", "/api/v1/products", "/api/v1/payments",
      "/api/v1/auth", "/api/v1/analytics", "/api/v1/notifications", "/api/v1/reports" }

httpMethods == {"GET", "POST", "PUT", "DELETE", "PATCH"}

userAgents ==
    { "Mozilla/5.0 (Windows NT 10.0; Win64; x64) AppleWebKit/537.36",
      "Mozilla/5.0 (Macintosh; Intel Mac OS X 10_15_7) AppleWebKit/537.36",
      "Mozilla/5.0 (iPhone; CPU iPhone OS 14_0 like Mac OS X) AppleWebKit/605.1.15",
      "okhttp/4.9.0", "axios/0.21.1" }

errorMessages ==
    { "connection timeout", "invalid authentication token", "rate limit exceeded",
      "database connection failed", "service unavailable", "invalid request payload",
      "resource not found", "permission denied" }

roles == {"admin", "user", "guest", "developer"}

databases == {"users_db", "orders_db", "products_db", "analytics_db"}

Shortest(S) == CHOOSE n \in {Len(x) : x \in S} : \A m \in {Len(x) : x \in S} : n <= m

Longest(S) == CHOOSE n \in {Len(x) : x \in S} : \A m \in {Len(x) : x \in S} : n >= m

\* the random draws of one record are taken all at their shortest or all at
\* their longest rendering
Draw(wide, lo, hi) == IF wide THEN hi ELSE lo

\* time.RFC3339Nano: from 2006-01-02T15:04:05Z to 2006-01-02T15:04:05.999999999+07:00
TimestampLen(wide) ==
    Draw(wide, Len("2006-01-02T15:04:05Z"), Len("2006-01-02T15:04:05.999999999+07:00"))

\* the digits of time.Now().Unix()
UnixDigits == Len("1700000000")

HttpSection(wide) ==
    Obj(   "method"      :> Str(Draw(wide, Shortest(httpMethods), Longest(httpMethods)))
        @@ "endpoint"    :> Str(Draw(wide, Shortest(endpoints), Longest(endpoints)))
        @@ "status_code" :> Num(Len("200"))
        @@ "duration_ms" :> Num(Draw(wide, Len("0"), Len("4999")))
        @@ "user_agent"  :> Str(Draw(wide, Shortest(userAgents), Longest(userAgents)))
        @@ "client_ip"   :> Str(Draw(wide, Len("10.0.0.0"), Len("10.255.255.255"))))

UserSection(wide) ==
    Obj(   "id"     :> Str(Draw(wide, Len("user_0"), Len("user_9999")))
        @@ "email"  :> Str(Draw(wide, Len("user0@example.com"), Len("user9999@example.com")))
        @@ "role"   :> Str(Draw(wide, Shortest(roles), Longest(roles)))
        @@ "org_id" :> Str(Draw(wide, Len("org_0"), Len("org_99"))))

\* the three frames of the stack trace are separated by two line feeds
StackTraceLen(wide) ==
      Len("at com.example.service.Handler.handle(") + 10 + Len(".java:")
          + Draw(wide, Len("0"), Len("499")) + Len(")")
    + 1 + Len("at com.example.service.Processor.process(") + 10 + Len(".java:")
          + Draw(wide, Len("0"), Len("499")) + Len(")")
    + 1 + Len("at com.example.service.Worker.run(") + 10 + Len(".java:")
          + Draw(wide, Len("0"), Len("499")) + Len(")")

ErrorSection(wide) ==
    Obj(   "type"        :> Str(Len("ServiceError"))
        @@ "message"     :> Str(Draw(wide, Shortest(errorMessages), Longest(errorMessages)))
        @@ "stack_trace" :> StrEsc(StackTraceLen(wide) - 2, 2 * 2)
        @@ "code"        :> Str(Draw(wide, Len("ERR_0"), Len("ERR_9998"))))

DatabaseSection(wide) ==
    Obj(   "query_time_ms" :> Num(Draw(wide, Len("0"), Len("999")))
        @@ "rows_affected" :> Num(Draw(wide, Len("0"), Len("99")))
        @@ "connection_id" :> Num(Draw(wide, Len("0"), Len("49")))
        @@ "database"      :> Str(Draw(wide, Shortest(databases), Longest(databases))))

HasError_AlsoWarn(level) == level \in {"ERROR", "WARN"}

\* if level == "ERROR"
HasError(level) == level = "ERROR"

\* logData before any padding
LogData(baseMessage, level, database, wide) ==
       "timestamp"   :> Str(TimestampLen(wide))
    @@ "level"       :> Str(Len(level))
    @@ "message"     :> Str(Len(baseMessage))
    @@ "service"     :> Str(Len("api-gateway"))
    @@ "environment" :> Str(Len("production"))
    @@ "version"     :> Str(Len("v1.2.3"))
    @@ "host"        :> Str(Len("server-") + 1)
    @@ "pod_id"      :> Str(Len("pod-") + Draw(wide, Len("0"), Len("99")) + Len("-") + 8)
    @@ "request_id"  :> Str(Len("req-") + 16 + Len("-") + UnixDigits)
    @@ "trace_id"    :> Str(32)
    @@ "span_id"     :> Str(16)
    @@ "http"        :> HttpSection(wide)
    @@ "user"        :> UserSection(wide)
    @@ (IF HasError(level) THEN "error" :> ErrorSection(wide) ELSE <<>>)
    @@ (IF database THEN "database" :> DatabaseSection(wide) ELSE <<>>)

\* the bytes set aside for the name of the filler field and the JSON around it
ReservedBytes == 100

PadLength_NoReserve(targetSize, currentSize) == targetSize - currentSize

\* remainingSize
PadLength(targetSize, currentSize) == targetSize - currentSize - ReservedBytes

\* the body returned for one record: its keys, its length before padding and
\* the length of the string that is returned
generateRealisticLogPayload(baseMessage, level, targetSize, database, wide) ==
    LET logData       == LogData(baseMessage, level, database, wide)
        currentSize   == MarshalLen(Obj(logData))
        remainingSize == PadLength(targetSize, currentSize)
        padded        == targetSize > 0 /\ currentSize < targetSize /\ remainingSize > 0
        final         == IF padded THEN logData @@ ("payload_data" :> Str(remainingSize))
                                   ELSE logData
    IN  [made |-> TRUE, level |-> level, keys |-> DOMAIN final, unpadded |-> currentSize,
         padded |-> padded, len |-> MarshalLen(Obj(final))]

NotMade == [made |-> FALSE]

MaxTargetSize == 1000

\* the payload sizes: none asked for, a negative one, and every size up to the bound
Targets == -1 .. MaxTargetSize

----------------------------------------------------------------------------
(* The generation loop of GenerateTraces, GenerateMetrics and GenerateLogs    *)
(* from the point where the exporter and the provider are built.  Time is a   *)
(* clock that advances in steps; one second is Second steps.                  *)

Signals == {"traces", "metrics", "logs"}

\* time.Second, in clock steps
Second == 3

MaxRate == 3

MaxDuration == 4

\* the clock stops here, after every deadline
MaxTime == MaxDuration + 2

\* --rate is an int flag: negative values, zero and values above one tick per
\* clock step are accepted as well
Rates == (-1 .. MaxRate) \cup {Second + 1}

Durations == 0 .. MaxDuration

\* time.Second / time.Duration(rate), for rate # 0
Period(rate) ==
    IF rate > 0 THEN Second \div rate ELSE 0 - (Second \div (0 - rate))

\* the division panics for rate 0, time.NewTicker panics for a period <= 0
TickerPanics(rate) == IF rate = 0 THEN TRUE ELSE Period(rate) <= 0

\* the seconds after which the context of a call into exporter or provider
\* expires, 0 for context.Background()
CallTimeout(signal, call) ==
    CASE call = "exporter.New"        -> 10
      [] call = "test.ForceFlush"     -> 15
      [] call = "test.Shutdown"       -> 5
      [] call = "exporter.New again"  -> 10
      [] call = "provider.ForceFlush" -> 30
      [] call = "provider.Shutdown"   -> IF signal = "metrics" THEN 30 ELSE 10
      [] call = "exporter.Shutdown"   -> 0

ExternalCalls == {"exporter.New", "test.ForceFlush", "test.Shutdown", "exporter.New again",
                  "provider.ForceFlush", "provider.Shutdown", "exporter.Shutdown"}

BuiltDefers_ExporterLast(signal) ==
    IF signal = "metrics" THEN <<"provider.Shutdown">>
    ELSE <<"provider.Shutdown", "exporter.Shutdown">>

\* what is deferred once the provider is built
BuiltDefers(signal) ==
    IF signal = "metrics" THEN <<"provider.Shutdown">>
    ELSE <<"exporter.Shutdown", "provider.Shutdown">>

Unset == [state |-> "unset", next |-> 0, C |-> 0]

----------------------------------------------------------------------------
(* The exporter GenerateTraces, GenerateMetrics and GenerateLogs build from *)
(* the endpoint: the options they hand to the gRPC or the HTTP exporter     *)

\* Endpoint.Address: host:port
Address(endpoint) == endpoint.Host \o <<":">> \o endpoint.Port

NoTLSConfig == [installed |-> FALSE]

TLSConfig_NoMinVersion(skip) ==
    [installed |-> TRUE, InsecureSkipVerify |-> skip, MinVersion |-> "unset"]

\* &tls.Config{InsecureSkipVerify: skip, MinVersion: tls.VersionTLS12}
TLSConfig(skip) ==
    [installed |-> TRUE, InsecureSkipVerify |-> skip, MinVersion |-> "VersionTLS12"]

NoKeepalive == [set |-> FALSE]

\* keepalive.ClientParameters, the times in seconds
KeepaliveParams == [set |-> TRUE, Time |-> 10, Timeout |-> 5, PermitWithoutStream |-> TRUE]

\* the dial options of the gRPC exporter: GenerateTraces alone adds one
DialKeepalive(signal) == IF signal = "traces" THEN KeepaliveParams ELSE NoKeepalive

\* the exporter built for a signal type from a resolved endpoint
ExporterOptions(signal, endpoint, insecureSkip) ==
    IF IsGRPC(endpoint.Protocol)
    THEN [called |-> TRUE, transport |-> "grpc", Endpoint |-> Address(endpoint),
          Insecure |-> ~ endpoint.Secure,
          TLS |-> IF endpoint.Secure THEN TLSConfig(insecureSkip) ELSE NoTLSConfig,
          Keepalive |-> DialKeepalive(signal)]
    ELSE [called |-> TRUE, transport |-> "http", Endpoint |-> Address(endpoint),
          Insecure |-> ~ endpoint.Secure,
          TLS |-> IF endpoint.Secure /\ insecureSkip THEN TLSConfig(TRUE) ELSE NoTLSConfig,
          Keepalive |-> NoKeepalive]

----------------------------------------------------------------------------
(* Go's int on the two platforms: a word of Int64Bits + 1 bits in two's *)
(* complement, held as the whole number its bits spell                   *)

WordBits == Int64Bits + 1

\* x mod 2^n
LowBits(x, n) ==
    LET w == n \div LimbBits
        k == IF Len(x) < w + 1 THEN Len(x) ELSE w + 1
    IN  Norm([i \in 1..k |-> IF i <= w THEN x[i] ELSE x[i] % 2^(n % LimbBits)])

\* 2^n - 1 - x for x < 2^n
Complement(x, n) ==
    LET w == n \div LimbBits
    IN  [i \in 1..(w + 1) |-> IF i <= w THEN (LimbBase - 1) - LimbAt(x, i)
                              ELSE (2^(n % LimbBits) - 1) - LimbAt(x, i)]

\* -u in the word
NegWord(u) == LowBits(MulAdd(Complement(u, WordBits), 1, 1), WordBits)

\* the word of a small integer
Word(n) == IF n >= 0 THEN ToBig(n) ELSE NegWord(ToBig(0 - n))

\* u * m in the word, for a small m >= 0: the product wraps around
MulWord(u, m) == LowBits(MulAdd(u, m, 0), WordBits)

\* the integer a word stands for, as sign and magnitude
Signed(u) ==
    IF BitAt(u, Int64Bits) = 1 THEN [neg |-> TRUE, mag |-> NegWord(u)]
    ELSE [neg |-> FALSE, mag |-> u]

\* x < y for whole numbers
BigLess(x, y) ==
    IF Len(x) # Len(y) THEN Len(x) < Len(y)
    ELSE \E i \in 1..Len(x) : x[i] < y[i] /\ \A j \in (i + 1)..Len(x) : x[j] = y[j]

\* a <= b for integers given as sign and magnitude
SignedLeq(a, b) ==
    IF a.neg # b.neg THEN a.neg
    ELSE IF a.neg THEN ~ BigLess(a.mag, b.mag)
    ELSE ~ BigLess(b.mag, a.mag)

----------------------------------------------------------------------------
(* The batch processor of the log pipeline *)

DefaultBatchSize == 512

MaxBatchSize == 3

MaxRecords == 8

\* values of --batch-size: small ones, none and a negative one, the default,
\* and the ones around the point where twice the value leaves the word
BatchSizes ==
    {Word(n) : n \in (0 - 1)..MaxBatchSize} \cup {Word(DefaultBatchSize)}
    \cup {ShiftRight(Word(0 - 1), 2), ShiftLeft(Word(1), Int64Bits - 1),
          ShiftRight(Word(0 - 1), 1)}

\* the options GenerateLogs hands to sdklog.NewBatchProcessor
BatchProcessorOptions(batchSize) ==
    [called |-> TRUE, MaxQueueSize |-> MulWord(batchSize, 2), ExportMaxBatchSize |-> batchSize]

\* limits the processor can apply as they are: positive ones (and small enough
\* to count up to)
Applicable(options) ==
    /\ options.called
    /\ Len(options.MaxQueueSize) = 1
    /\ Len(options.ExportMaxBatchSize) = 1

----------------------------------------------------------------------------
(* The instruments of a metrics run *)

MaxPad == 3

MaxTicks == 4

MaxCollects == 3

\* payload sizes ParseSize hands on: none, and some number of bytes
PayloadSizes == {0, 1, MaxPad}

\* the attributes of the counter's and the histogram's point of a tick
PointAttributes(payloadSize) == {"method", "endpoint"}

----------------------------------------------------------------------------
(* A trace: generateTrace and GeneratePadding.  A span is known by its name  *)
(* and, for a child, the i of its name; its attributes are a function from  *)
(* their keys                                                               *)

GeneratePadding_OneShort(size) == IF size <= 0 THEN <<>> ELSE [i \in 1..(size - 1) |-> "x"]

\* size bytes 'x', nothing for a size that is not positive
GeneratePadding(size) == IF size <= 0 THEN <<>> ELSE [i \in 1..size |-> "x"]

\* payload sizes generateTrace can get: those of ParseSize, one below zero
\* standing for the result of a literal beyond int64 on amd64
TracePayloadSizes == PayloadSizes \cup {0 - 1}

\* rand.Intn(1000), its least and its greatest value
OperationIds == {0, 999}

ChildDraws_FromZero == 0..3

\* rand.Intn(3) + 1, drawn anew at every test of the loop
ChildDraws == 1..3

PaddingAttr(payloadSize) ==
    IF payloadSize > 0 THEN [k \in {"payload.data"} |-> GeneratePadding(payloadSize)]
    ELSE [k \in {} |-> <<>>]

ParentAttrs(id, payloadSize) ==
    [k \in {"operation.type"} |-> "http"] @@ [k \in {"operation.id"} |-> id]
        @@ PaddingAttr(payloadSize)

ChildAttrs(i, payloadSize) ==
    [k \in {"child.type"} |-> "db"] @@ [k \in {"child.id"} |-> i] @@ PaddingAttr(payloadSize)

ParentSpan == [name |-> "parent-operation", i |-> 0 - 1]

ChildSpan(i) == [name |-> "child-operation", i |-> i]

MetricIdle ==
    /\ mtPayloadSize = 0
    /\ mtPc = "idle"
    /\ mtCount = 0
    /\ mtCounter = 0
    /\ mtSamples = 0
    /\ mtGauge = 0
    /\ mtAttrs = {}

TraceIdle ==
    /\ trPayloadSize = 0
    /\ trPc = "idle"
    /\ trChild = 0
    /\ trEvents = <<>>
    /\ trPadding = NotCalled

ExporterIdle ==
    /\ exSignal = "traces"
    /\ exInsecureSkip = FALSE
    /\ exExporter = NotCalled
    /\ exRebuilt = FALSE
    /\ exVerbose = FALSE

BatchIdle ==
    /\ bpBatchSize = <<>>
    /\ bpOptions = NotCalled
    /\ bpQueue = 0
    /\ bpBatch = 0
    /\ bpEmitted = 0

EndpointIdle ==
    /\ epParts = [scheme |-> [text |-> <<>>, proto |-> "none"], sep |-> <<>>, host |-> <<>>,
                  port |-> [kind |-> "none", text |-> <<>>, digits |-> <<>>], tail |-> <<>>]
    /\ epInput = <<>>
    /\ epResult = NotCalled
    /\ epAgain = NotCalled

SizeIdle ==
    /\ arch = "amd64"
    /\ szParts = [num |-> <<>>, unit |-> <<>>, how |-> "again"]
    /\ szInput = <<>>
    /\ szVariant = <<>>
    /\ szResult = NotCalled
    /\ szAgain = NotCalled

LogIdle ==
    /\ lgTarget = 0
    /\ lgBody = NotMade

LoopIdle ==
    /\ lpSignal = "logs"
    /\ lpRate = 1
    /\ lpDuration = 0
    /\ lpPc = "idle"
    /\ lpNow = 0
    /\ lpTicker = Unset
    /\ lpTimer = Unset
    /\ lpCount = 0
    /\ lpPrinted = <<>>
    /\ lpDefers = <<>>
    /\ lpEvents = <<>>
    /\ lpTickFault = 0
    /\ lpVerbose = FALSE
    /\ lpProbed = FALSE
    /\ lpFaults = {}
    /\ lpActive = 0
    /\ lpSent = -1
    /\ lpLast = -1
    /\ lpExporter = "none"
    /\ lpDown = {}

SizeInit ==
    /\ arch \in Platforms
    /\ szParts \in SizeParts
    /\ szInput = SizeText(szParts)
    /\ szVariant = SizeVariant(szParts)
    /\ szResult = NotCalled
    /\ szAgain = NotCalled
    /\ EndpointIdle
    /\ LogIdle
    /\ LoopIdle
    /\ ExporterIdle
    /\ BatchIdle
    /\ MetricIdle
    /\ TraceIdle

\* runTraces, runMetrics and runLogs parse the --size text
CallParseSize ==
    /\ ~ szResult.called
    /\ szResult' = ParseSize(szInput, arch)
    /\ UNCHANGED <<arch, szParts, szInput, szVariant, szAgain>>
    /\ UNCHANGED <<epVars, lgVars, lpVars, exVars, bpVars, mtVars, trVars>>

\* a later run parses the other spelling
CallParseSizeAgain ==
    /\ szResult.called
    /\ ~ szAgain.called
    /\ szAgain' = ParseSize(szVariant, arch)
    /\ UNCHANGED <<arch, szParts, szInput, szVariant, szResult>>
    /\ UNCHANGED <<epVars, lgVars, lpVars, exVars, bpVars, mtVars, trVars>>

SizeNext == CallParseSize \/ CallParseSizeAgain

SpecSize == SizeInit /\ [][SizeNext]_vars

EndpointInit ==
    /\ epParts \in EndpointParts
    /\ epInput = EndpointText(epParts)
    /\ epResult = NotCalled
    /\ epAgain = NotCalled
    /\ SizeIdle
    /\ LogIdle
    /\ LoopIdle
    /\ ExporterIdle
    /\ BatchIdle
    /\ MetricIdle
    /\ TraceIdle

\* Protocol.String
ProtocolString(p) ==
    CASE p = "grpc"  -> <<"g", "r", "p", "c">>
      [] p = "grpcs" -> <<"g", "r", "p", "c", "s">>
      [] p = "http"  -> <<"h", "t", "t", "p">>
      [] p = "https" -> <<"h", "t", "t", "p", "s">>
      [] OTHER       -> <<"u", "n", "k", "n", "o", "w", "n">>

\* Endpoint.String: fmt.Sprintf("%s://%s:%s", e.Protocol, e.Host, e.Port)
String(e) == ProtocolString(e.Protocol) \o <<":", "/", "/">> \o e.Host \o <<":">> \o e.Port

\* runTraces, runMetrics and runLogs resolve the --otlp-endpoint text
CallParseEndpoint ==
    /\ ~ epResult.called
    /\ epResult' = ParseEndpoint(epInput)
    /\ UNCHANGED <<epParts, epInput, epAgain>>
    /\ UNCHANGED <<szVars, lgVars, lpVars, exVars, bpVars, mtVars, trVars>>

\* the text of endpoint.String() is handed to ParseEndpoint
ParseString ==
    /\ epResult.called
    /\ ~ epResult.err
    /\ ~ epAgain.called
    /\ epAgain' = ParseEndpoint(String(epResult))
    /\ UNCHANGED <<epParts, epInput, epResult>>
    /\ UNCHANGED <<szVars, lgVars, lpVars, exVars, bpVars, mtVars, trVars>>

EndpointNext == CallParseEndpoint \/ ParseString

SpecEndpoint == EndpointInit /\ [][EndpointNext]_vars

LogInit ==
    /\ lgTarget \in Targets
    /\ lgBody = NotMade
    /\ EndpointIdle
    /\ SizeIdle
    /\ LoopIdle
    /\ ExporterIdle
    /\ BatchIdle
    /\ MetricIdle
    /\ TraceIdle

\* a tick of the log loop builds the body of one record; the bodies of later
\* records are built the same way from fresh draws, so one record is followed
generateLogRecord ==
    \E baseMessage \in logMessages, level \in logLevels, database \in BOOLEAN, wide \in BOOLEAN :
        /\ ~ lgBody.made
        /\ lgBody' = generateRealisticLogPayload(baseMessage, level,
                                                 IF lgTarget > 0 THEN lgTarget ELSE 0,
                                                 database, wide)
        /\ UNCHANGED lgTarget
        /\ UNCHANGED <<epVars, szVars, lpVars, exVars, bpVars, mtVars, trVars>>

LogNext == generateLogRecord

SpecLogPayload == LogInit /\ [][LogNext]_vars

LoopInit ==
    /\ lpSignal \in Signals
    /\ lpRate \in Rates
    /\ lpDuration \in Durations
    /\ lpPc = "built"
    /\ lpNow = 0
    /\ lpTicker = Unset
    /\ lpTimer = Unset
    /\ lpCount = 0
    /\ lpPrinted = <<>>
    /\ lpDefers = BuiltDefers(lpSignal)
    /\ lpEvents = <<>>
    /\ lpTickFault = 0
    /\ lpVerbose = FALSE
    /\ lpProbed = FALSE
    /\ lpFaults = {}
    /\ lpActive = 0
    /\ lpSent = -1
    /\ lpLast = -1
    /\ lpExporter = "first"
    /\ lpDown = {}
    /\ EndpointIdle
    /\ SizeIdle
    /\ LogIdle
    /\ ExporterIdle
    /\ BatchIdle
    /\ MetricIdle
    /\ TraceIdle

Others == <<epVars, szVars, lgVars, exVars, bpVars, mtVars, trVars>>

\* time.NewTicker(time.Second / time.Duration(rate)) panics
NewTickerPanics ==
    /\ lpPc = "built"
    /\ TickerPanics(lpRate)
    /\ lpPc' = "panicking"
    /\ UNCHANGED <<lpSignal, lpRate, lpDuration, lpNow, lpTicker, lpTimer, lpCount, lpPrinted,
                   lpDefers, lpEvents, lpTickFault, lpVerbose, lpProbed, lpFaults, lpActive,
                   lpSent, lpLast, lpExporter, lpDown>>
    /\ UNCHANGED Others

\* ticker := time.NewTicker(...); defer ticker.Stop();
\* timer := time.NewTimer(duration); defer timer.Stop(); count := 0
StartTimers ==
    /\ lpPc = "built"
    /\ ~ TickerPanics(lpRate)
    /\ lpTicker' = [state |-> "running", next |-> lpNow + Period(lpRate), C |-> 0]
    /\ lpTimer' = [state |-> "armed", next |-> lpNow + lpDuration, C |-> 0]
    /\ lpDefers' = lpDefers \o <<"ticker.Stop", "timer.Stop">>
    /\ lpCount' = 0
    /\ lpPc' = "select"
    /\ UNCHANGED <<lpSignal, lpRate, lpDuration, lpNow, lpPrinted, lpEvents, lpTickFault,
                   lpVerbose, lpProbed, lpFaults, lpActive, lpSent, lpLast, lpExporter, lpDown>>
    /\ UNCHANGED Others

\* the loop waits in select with nothing to receive
Blocked == lpPc = "select" /\ lpTicker.C = 0 /\ lpTimer.C = 0

TickDue == lpTicker.state = "running" /\ lpNow >= lpTicker.next

DeadlineDue == lpTimer.state = "armed" /\ lpNow >= lpTimer.next

\* the clock advances while the loop waits in select or a tick is handled
Advance ==
    /\ Blocked \/ lpPc = "handler"
    /\ ~ TickDue
    /\ ~ DeadlineDue
    /\ lpNow < MaxTime
    /\ lpNow' = lpNow + 1
    /\ UNCHANGED <<lpSignal, lpRate, lpDuration, lpPc, lpTicker, lpTimer, lpCount, lpPrinted,
                   lpDefers, lpEvents, lpTickFault, lpVerbose, lpProbed, lpFaults, lpActive,
                   lpSent, lpLast, lpExporter, lpDown>>
    /\ UNCHANGED Others

PcAfterTick_Spawned == "select"

\* the tick case calls the generator of the record and waits for it
PcAfterTick == "handler"

\* the ticker sends a tick: to the waiting select, which takes the tick case,
\* or into its channel, or nowhere when a tick is still in the channel
TickerFires ==
    /\ TickDue
    /\ lpTicker' = [lpTicker EXCEPT !.next = @ + Period(lpRate),
                                    !.C = IF Blocked THEN 0 ELSE 1]
    /\ lpPc' = IF Blocked THEN PcAfterTick ELSE lpPc
    /\ lpActive' = IF Blocked THEN lpActive + 1 ELSE lpActive
    /\ lpLast' = IF Blocked THEN lpNow ELSE lpLast
    /\ lpSent' = IF ~ Blocked /\ lpTicker.C = 0 THEN lpNow ELSE lpSent
    /\ UNCHANGED <<lpSignal, lpRate, lpDuration, lpNow, lpTimer, lpCount, lpPrinted, lpDefers,
                   lpEvents, lpTickFault, lpVerbose, lpProbed, lpFaults, lpExporter, lpDown>>
    /\ UNCHANGED Others

\* the timer sends once: to the waiting select, which takes the deadline case,
\* or into its channel
TimerFires ==
    /\ DeadlineDue
    /\ lpTimer' = [lpTimer EXCEPT !.state = "fired", !.C = IF Blocked THEN 0 ELSE 1]
    /\ lpPc' = IF Blocked THEN "deadline" ELSE lpPc
    /\ UNCHANGED <<lpSignal, lpRate, lpDuration, lpNow, lpTicker, lpCount, lpPrinted, lpDefers,
                   lpEvents, lpTickFault, lpVerbose, lpProbed, lpFaults, lpActive, lpSent,
                   lpLast, lpExporter, lpDown>>
    /\ UNCHANGED Others

\* case <-ticker.C: select takes any of the cases that are ready
SelectTick ==
    /\ lpPc = "select"
    /\ lpTicker.C = 1
    /\ lpTicker' = [lpTicker EXCEPT !.C = 0]
    /\ lpPc' = PcAfterTick
    /\ lpActive' = lpActive + 1
    /\ lpLast' = lpSent
    /\ lpSent' = -1
    /\ UNCHANGED <<lpSignal, lpRate, lpDuration, lpNow, lpTimer, lpCount, lpPrinted, lpDefers,
                   lpEvents, lpTickFault, lpVerbose, lpProbed, lpFaults, lpExporter, lpDown>>
    /\ UNCHANGED Others

CountAfterTick_SkipsFailed(count, failed) == IF failed THEN count ELSE count + 1

\* count++ comes after the record of the tick, whether it failed or not
CountAfterTick(count, failed) == count + 1

HandlerReturn_ErrorEndsLoop ==
    /\ lpPc = "handler"
    /\ \E failed \in BOOLEAN :
          /\ lpCount' = CountAfterTick(lpCount, failed)
          /\ lpTickFault' = IF failed /\ lpTickFault = 0 THEN lpCount + 1 ELSE lpTickFault
          /\ lpPc' = IF failed THEN "returning" ELSE "select"
    /\ lpActive' = lpActive - 1
    /\ UNCHANGED <<lpSignal, lpRate, lpDuration, lpNow, lpTicker, lpTimer, lpPrinted, lpDefers,
                   lpEvents, lpVerbose, lpProbed, lpFaults, lpSent, lpLast, lpExporter, lpDown>>
    /\ UNCHANGED Others

\* the record of the tick is generated or fails; a failure is at most printed
HandlerReturn ==
    /\ lpPc = "handler"
    /\ \E failed \in BOOLEAN :
          /\ lpCount' = CountAfterTick(lpCount, failed)
          /\ lpTickFault' = IF failed /\ lpTickFault = 0 THEN lpCount + 1 ELSE lpTickFault
    /\ lpPc' = "select"
    /\ lpActive' = lpActive - 1
    /\ UNCHANGED <<lpSignal, lpRate, lpDuration, lpNow, lpTicker, lpTimer, lpPrinted, lpDefers,
                   lpEvents, lpVerbose, lpProbed, lpFaults, lpSent, lpLast, lpExporter, lpDown>>
    /\ UNCHANGED Others

\* case <-timer.C: select takes any of the cases that are ready
SelectDeadline ==
    /\ lpPc = "select"
    /\ lpTimer.C = 1
    /\ lpTimer' = [lpTimer EXCEPT !.C = 0]
    /\ lpPc' = "deadline"
    /\ UNCHANGED <<lpSignal, lpRate, lpDuration, lpNow, lpTicker, lpCount, lpPrinted, lpDefers,
                   lpEvents, lpTickFault, lpVerbose, lpProbed, lpFaults, lpActive, lpSent,
                   lpLast, lpExporter, lpDown>>
    /\ UNCHANGED Others

\* a deadline branch that ends with break leaves the select, not the loop
PrintCount_BreakOnly ==
    /\ lpPc = "deadline"
    /\ lpPrinted' = Append(lpPrinted, lpCount)
    /\ lpEvents' = Append(lpEvents, "report")
    /\ lpPc' = "select"
    /\ UNCHANGED <<lpSignal, lpRate, lpDuration, lpNow, lpTicker, lpTimer, lpCount, lpDefers,
                   lpTickFault, lpVerbose, lpProbed, lpFaults, lpActive, lpSent, lpLast,
                   lpExporter, lpDown>>
    /\ UNCHANGED Others

\* the deadline branch prints the count; metrics go on to the final flush,
\* traces and logs return
PrintCount ==
    /\ lpPc = "deadline"
    /\ lpPrinted' = Append(lpPrinted, lpCount)
    /\ lpEvents' = Append(lpEvents, "report")
    /\ lpPc' = IF lpSignal = "metrics" THEN "flush" ELSE "returning"
    /\ UNCHANGED <<lpSignal, lpRate, lpDuration, lpNow, lpTicker, lpTimer, lpCount, lpDefers,
                   lpTickFault, lpVerbose, lpProbed, lpFaults, lpActive, lpSent, lpLast,
                   lpExporter, lpDown>>
    /\ UNCHANGED Others

AfterFlush_ReturnsError(ok) == IF ok THEN "returning" ELSE "failing"

\* an error of the final flush is printed as a warning; return nil follows
AfterFlush(ok) == "returning"

\* defer flushCancel(); mp.ForceFlush(flushCtx); return nil
ForceFlush ==
    /\ lpPc = "flush"
    /\ lpDefers' = Append(lpDefers, "flushCancel")
    /\ lpEvents' = Append(lpEvents, "provider.ForceFlush")
    /\ \E ok \in BOOLEAN :
          /\ lpFaults' = IF ok THEN lpFaults ELSE lpFaults \cup {"flush"}
          /\ lpPc' = AfterFlush(ok)
    /\ UNCHANGED <<lpSignal, lpRate, lpDuration, lpNow, lpTicker, lpTimer, lpCount, lpPrinted,
                   lpTickFault, lpVerbose, lpProbed, lpActive, lpSent, lpLast, lpExporter,
                   lpDown>>
    /\ UNCHANGED Others

\* what a deferred call shuts down: the provider shuts its exporter down too
ShutDownBy(call, exporter) ==
    CASE call = "provider.Shutdown" -> {"provider", exporter}
      [] call = "exporter.Shutdown" -> {exporter}
      [] OTHER                      -> {}

\* the deferred calls run last in, first out, after a return and after a panic;
\* an error of the provider's shutdown is printed, one of the exporter's dropped
RunDeferred ==
    /\ lpPc \in {"returning", "failing", "panicking"}
    /\ lpDefers # <<>>
    /\ LET call == lpDefers[Len(lpDefers)]
       IN  /\ lpTimer' = IF call = "timer.Stop"
                         THEN [lpTimer EXCEPT !.state = "stopped"] ELSE lpTimer
           /\ lpTicker' = IF call = "ticker.Stop"
                          THEN [lpTicker EXCEPT !.state = "stopped"] ELSE lpTicker
    /\ lpDefers' = SubSeq(lpDefers, 1, Len(lpDefers) - 1)
    /\ lpEvents' = Append(lpEvents, lpDefers[Len(lpDefers)])
    /\ lpDown' = lpDown \cup ShutDownBy(lpDefers[Len(lpDefers)], lpExporter)
    /\ \E ok \in BOOLEAN :
          /\ ok \/ lpDefers[Len(lpDefers)] \in {"provider.Shutdown", "exporter.Shutdown"}
          /\ lpFaults' = IF ok THEN lpFaults ELSE lpFaults \cup {lpDefers[Len(lpDefers)]}
    /\ UNCHANGED <<lpSignal, lpRate, lpDuration, lpPc, lpNow, lpCount, lpPrinted, lpTickFault,
                   lpVerbose, lpProbed, lpActive, lpSent, lpLast, lpExporter>>
    /\ UNCHANGED Others

\* the Generate function returns nil or an error, or the panic ends the process
Exit ==
    /\ lpPc \in {"returning", "failing", "panicking"}
    /\ lpDefers = <<>>
    /\ lpPc' = CASE lpPc = "returning" -> "returned"
                 [] lpPc = "failing"   -> "failed"
                 [] lpPc = "panicking" -> "panicked"
    /\ UNCHANGED <<lpSignal, lpRate, lpDuration, lpNow, lpTicker, lpTimer, lpCount, lpPrinted,
                   lpDefers, lpEvents, lpTickFault, lpVerbose, lpProbed, lpFaults, lpActive,
                   lpSent, lpLast, lpExporter, lpDown>>
    /\ UNCHANGED Others

\* runTraces, runMetrics, runLogs: an endpoint or a size that does not parse
\* is returned as an error before the Generate function is called
RunCommand ==
    /\ lpPc = "start"
    /\ \E fault \in {"none", "endpoint", "size"} :
          /\ lpFaults' = IF fault = "none" THEN lpFaults ELSE lpFaults \cup {fault}
          /\ lpPc' = IF fault = "none" THEN "generate" ELSE "failing"
    /\ UNCHANGED <<lpSignal, lpRate, lpDuration, lpNow, lpTicker, lpTimer, lpCount, lpPrinted,
                   lpDefers, lpEvents, lpTickFault, lpVerbose, lpProbed, lpActive, lpSent,
                   lpLast, lpExporter, lpDown>>
    /\ UNCHANGED Others

\* time.ParseDuration(durationStr); resource.New(ctx, ...)
GenerateStart ==
    /\ lpPc = "generate"
    /\ \E fault \in {"none", "duration", "resource"} :
          /\ lpFaults' = IF fault = "none" THEN lpFaults ELSE lpFaults \cup {fault}
          /\ lpPc' = IF fault = "none" THEN "exporter" ELSE "failing"
    /\ UNCHANGED <<lpSignal, lpRate, lpDuration, lpNow, lpTicker, lpTimer, lpCount, lpPrinted,
                   lpDefers, lpEvents, lpTickFault, lpVerbose, lpProbed, lpActive, lpSent,
                   lpLast, lpExporter, lpDown>>
    /\ UNCHANGED Others

\* exporter, err = otlp...New(exporterCtx, opts...); a verbose trace run goes
\* on to its connectivity test
NewExporter ==
    /\ lpPc = "exporter"
    /\ lpEvents' = Append(lpEvents, "exporter.New")
    /\ \E ok \in BOOLEAN :
          /\ lpExporter' = IF ok THEN "first" ELSE "none"
          /\ lpFaults' = IF ok THEN lpFaults ELSE lpFaults \cup {"exporter"}
          /\ lpPc' = IF ~ ok THEN "failing"
                     ELSE IF lpSignal = "traces" /\ lpVerbose THEN "probe" ELSE "provider"
    /\ UNCHANGED <<lpSignal, lpRate, lpDuration, lpNow, lpTicker, lpTimer, lpCount, lpPrinted,
                   lpDefers, lpTickFault, lpVerbose, lpProbed, lpActive, lpSent, lpLast, lpDown>>
    /\ UNCHANGED Others

ExporterAfterProbe_Kept(old) == old

\* exporter, err = otlptrace...New(exporterCtx2, opts...)
ExporterAfterProbe(old) == "second"

\* a verbose trace run sends a test span through a provider of its own, whose
\* flush can fail with a warning, shuts that provider and with it the exporter
\* down and builds a new exporter for the run
ProbeAndRebuild ==
    /\ lpPc = "probe"
    /\ lpProbed' = TRUE
    /\ lpEvents' = lpEvents \o <<"test.ForceFlush", "test.Shutdown", "exporter.New again">>
    /\ lpDown' = lpDown \cup {"test provider", lpExporter}
    /\ \E flushed \in BOOLEAN, ok \in BOOLEAN :
          /\ lpFaults' = lpFaults \cup (IF flushed THEN {} ELSE {"probe"})
                                  \cup (IF ok THEN {} ELSE {"new exporter"})
          /\ lpExporter' = IF ok THEN ExporterAfterProbe(lpExporter) ELSE "none"
          /\ lpPc' = IF ok THEN "provider" ELSE "failing"
    /\ UNCHANGED <<lpSignal, lpRate, lpDuration, lpNow, lpTicker, lpTimer, lpCount, lpPrinted,
                   lpDefers, lpTickFault, lpVerbose, lpActive, lpSent, lpLast>>
    /\ UNCHANGED Others

\* defer exporter.Shutdown(ctx) for traces and logs; the provider is made and
\* its shutdown deferred; a metrics run then makes its instruments, which can fail
NewProvider ==
    /\ lpPc = "provider"
    /\ lpDefers' = BuiltDefers(lpSignal)
    /\ \E ok \in BOOLEAN :
          /\ ok \/ lpSignal = "metrics"
          /\ lpFaults' = IF ok THEN lpFaults ELSE lpFaults \cup {"instruments"}
          /\ lpPc' = IF ok THEN "built" ELSE "failing"
    /\ UNCHANGED <<lpSignal, lpRate, lpDuration, lpNow, lpTicker, lpTimer, lpCount, lpPrinted,
                   lpEvents, lpTickFault, lpVerbose, lpProbed, lpActive, lpSent, lpLast,
                   lpExporter, lpDown>>
    /\ UNCHANGED Others

LoopNext ==
    \/ NewTickerPanics
    \/ StartTimers
    \/ Advance
    \/ TickerFires
    \/ TimerFires
    \/ SelectTick
    \/ HandlerReturn
    \/ SelectDeadline
    \/ PrintCount
    \/ ForceFlush
    \/ RunDeferred
    \/ Exit

SpecLoop == LoopInit /\ [][LoopNext]_vars

\* every step that can be taken is taken in the end, time passes, and a select
\* that finds the deadline ready again and again takes it in the end
SpecLoopFair ==
    /\ SpecLoop
    /\ WF_vars(NewTickerPanics)
    /\ WF_vars(StartTimers)
    /\ WF_vars(Advance)
    /\ WF_vars(TickerFires)
    /\ WF_vars(TimerFires)
    /\ WF_vars(SelectTick)
    /\ WF_vars(HandlerReturn)
    /\ SF_vars(SelectDeadline)
    /\ WF_vars(PrintCount)
    /\ WF_vars(ForceFlush)
    /\ WF_vars(RunDeferred)
    /\ WF_vars(Exit)

\* a whole run of a command, from its flags to its exit
RunInit ==
    /\ lpSignal \in Signals
    /\ lpRate \in Rates
    /\ lpDuration \in Durations
    /\ lpPc = "start"
    /\ lpNow = 0
    /\ lpTicker = Unset
    /\ lpTimer = Unset
    /\ lpCount = 0
    /\ lpPrinted = <<>>
    /\ lpDefers = <<>>
    /\ lpEvents = <<>>
    /\ lpTickFault = 0
    /\ lpVerbose \in BOOLEAN
    /\ lpProbed = FALSE
    /\ lpFaults = {}
    /\ lpActive = 0
    /\ lpSent = -1
    /\ lpLast = -1
    /\ lpExporter = "none"
    /\ lpDown = {}
    /\ EndpointIdle
    /\ SizeIdle
    /\ LogIdle
    /\ ExporterIdle
    /\ BatchIdle
    /\ MetricIdle
    /\ TraceIdle

RunNext ==
    \/ RunCommand
    \/ GenerateStart
    \/ NewExporter
    \/ ProbeAndRebuild
    \/ NewProvider
    \/ LoopNext

SpecRun == RunInit /\ [][RunNext]_vars

ExitCode_AlwaysZero(pc) == 0

\* rootCmd.Execute: an error is printed and the process exits with 1; a panic
\* ends the process with 2
ExitCode(pc) ==
    CASE pc = "returned" -> 0
      [] pc = "failed"   -> 1
      [] pc = "panicked" -> 2
      [] OTHER           -> -1

----------------------------------------------------------------------------
(* The log pipeline between the loop and the transport *)

BatchInit ==
    /\ bpBatchSize \in BatchSizes
    /\ bpOptions = NotCalled
    /\ bpQueue = 0
    /\ bpBatch = 0
    /\ bpEmitted = 0
    /\ EndpointIdle
    /\ SizeIdle
    /\ LogIdle
    /\ LoopIdle
    /\ ExporterIdle
    /\ MetricIdle
    /\ TraceIdle

NotBatch == <<epVars, szVars, lgVars, lpVars, exVars, mtVars, trVars>>

NewBatchProcessor ==
    /\ ~ bpOptions.called
    /\ bpOptions' = BatchProcessorOptions(bpBatchSize)
    /\ UNCHANGED <<bpBatchSize, bpQueue, bpBatch, bpEmitted>>
    /\ UNCHANGED NotBatch

\* logger.Emit hands one record to the processor: it waits in the queue, and
\* a full queue loses a record
Emit ==
    /\ Applicable(bpOptions)
    /\ bpEmitted < MaxRecords
    /\ bpEmitted' = bpEmitted + 1
    /\ bpQueue' = IF bpQueue < bpOptions.MaxQueueSize[1] THEN bpQueue + 1 ELSE bpQueue
    /\ UNCHANGED <<bpBatchSize, bpOptions, bpBatch>>
    /\ UNCHANGED NotBatch

\* the processor sends what waits, ExportMaxBatchSize records at most
Export ==
    /\ Applicable(bpOptions)
    /\ bpQueue > 0
    /\ bpBatch' = IF bpQueue < bpOptions.ExportMaxBatchSize[1] THEN bpQueue
                  ELSE bpOptions.ExportMaxBatchSize[1]
    /\ bpQueue' = bpQueue - bpBatch'
    /\ UNCHANGED <<bpBatchSize, bpOptions, bpEmitted>>
    /\ UNCHANGED NotBatch

BatchNext == NewBatchProcessor \/ Emit \/ Export

SpecBatch == BatchInit /\ [][BatchNext]_vars

----------------------------------------------------------------------------
(* From the endpoint text to the exporter *)

ExporterInit ==
    /\ epParts \in EndpointParts
    /\ epInput = EndpointText(epParts)
    /\ epResult = NotCalled
    /\ epAgain = NotCalled
    /\ exSignal \in Signals
    /\ exInsecureSkip \in BOOLEAN
    /\ exVerbose \in BOOLEAN
    /\ exExporter = NotCalled
    /\ exRebuilt = FALSE
    /\ SizeIdle
    /\ LogIdle
    /\ LoopIdle
    /\ BatchIdle
    /\ MetricIdle
    /\ TraceIdle

\* the Generate function is reached with the endpoint ParseEndpoint returned,
\* and builds its exporter
CreateExporter ==
    /\ epResult.called
    /\ ~ epResult.err
    /\ ~ exExporter.called
    /\ exExporter' = ExporterOptions(exSignal, epResult, exInsecureSkip)
    /\ UNCHANGED <<exSignal, exInsecureSkip, exVerbose, exRebuilt>>
    /\ UNCHANGED <<epVars, szVars, lgVars, lpVars, bpVars, mtVars, trVars>>

\* a verbose trace run uses its first exporter for the test span and builds a
\* second one
RebuildExporter ==
    /\ exExporter.called
    /\ exSignal = "traces"
    /\ exVerbose
    /\ ~ exRebuilt
    /\ exExporter' = ExporterOptions(exSignal, epResult, exInsecureSkip)
    /\ exRebuilt' = TRUE
    /\ UNCHANGED <<exSignal, exInsecureSkip, exVerbose>>
    /\ UNCHANGED <<epVars, szVars, lgVars, lpVars, bpVars, mtVars, trVars>>

ExporterNext == CallParseEndpoint \/ CreateExporter \/ RebuildExporter

SpecExporter == ExporterInit /\ [][ExporterNext]_vars

----------------------------------------------------------------------------
(* The instruments of a metrics run: the ticks of the loop and the collection *)
(* cycles of the periodic reader                                             *)

MetricInit ==
    /\ mtPayloadSize \in PayloadSizes
    /\ mtPc = "running"
    /\ mtCount = 0
    /\ mtCounter = 0
    /\ mtSamples = 0
    /\ mtGauge = 0
    /\ mtAttrs = {}
    /\ EndpointIdle
    /\ SizeIdle
    /\ LogIdle
    /\ LoopIdle
    /\ ExporterIdle
    /\ BatchIdle
    /\ TraceIdle

NotMetric == <<epVars, szVars, lgVars, lpVars, exVars, bpVars, trVars>>

MetricTick_NoHistogram ==
    /\ mtPc = "running"
    /\ mtCount < MaxTicks
    /\ mtCounter' = mtCounter + 1
    /\ mtAttrs' = PointAttributes(mtPayloadSize)
    /\ mtCount' = mtCount + 1
    /\ UNCHANGED <<mtPayloadSize, mtPc, mtGauge, mtSamples>>
    /\ UNCHANGED NotMetric

\* case <-ticker.C: counter.Add(ctx, 1, ...); histogram.Record(ctx, ...); count++
MetricTick ==
    /\ mtPc = "running"
    /\ mtCount < MaxTicks
    /\ mtCounter' = mtCounter + 1
    /\ mtSamples' = mtSamples + 1
    /\ mtAttrs' = PointAttributes(mtPayloadSize)
    /\ mtCount' = mtCount + 1
    /\ UNCHANGED <<mtPayloadSize, mtPc, mtGauge>>
    /\ UNCHANGED NotMetric

\* a collection of the reader, every interval and at the final flush, calls the
\* gauge's callback, which observes one value
Collect ==
    /\ mtPc \in {"running", "flushing"}
    /\ mtGauge < MaxCollects
    /\ mtGauge' = mtGauge + 1
    /\ UNCHANGED <<mtPayloadSize, mtPc, mtCount, mtCounter, mtSamples, mtAttrs>>
    /\ UNCHANGED NotMetric

\* case <-timer.C: the count is printed and the final flush begins
MetricDeadline ==
    /\ mtPc = "running"
    /\ mtPc' = "flushing"
    /\ UNCHANGED <<mtPayloadSize, mtCount, mtCounter, mtSamples, mtGauge, mtAttrs>>
    /\ UNCHANGED NotMetric

\* mp.ForceFlush returns; return nil
MetricReturn ==
    /\ mtPc = "flushing"
    /\ mtPc' = "done"
    /\ UNCHANGED <<mtPayloadSize, mtCount, mtCounter, mtSamples, mtGauge, mtAttrs>>
    /\ UNCHANGED NotMetric

MetricNext == MetricTick \/ Collect \/ MetricDeadline \/ MetricReturn

SpecMetrics == MetricInit /\ [][MetricNext]_vars

----------------------------------------------------------------------------
(* One trace *)

TraceInit ==
    /\ trPayloadSize \in TracePayloadSizes
    /\ trPc = "start"
    /\ trChild = 0
    /\ trEvents = <<>>
    /\ trPadding = NotCalled
    /\ EndpointIdle
    /\ SizeIdle
    /\ LogIdle
    /\ LoopIdle
    /\ ExporterIdle
    /\ BatchIdle
    /\ MetricIdle

NotTrace == <<epVars, szVars, lgVars, lpVars, exVars, bpVars, mtVars>>

\* ctx, span := tracer.Start(ctx, "parent-operation", ...); defer span.End()
StartParent ==
    /\ trPc = "start"
    /\ \E id \in OperationIds :
          trEvents' = Append(trEvents, [op |-> "start", span |-> ParentSpan,
                                        attrs |-> ParentAttrs(id, trPayloadSize)])
    /\ trPc' = "loop"
    /\ UNCHANGED <<trPayloadSize, trChild, trPadding>>
    /\ UNCHANGED NotTrace

\* i < rand.Intn(3)+1: the child span i is started, or the loop is left
StartChild ==
    /\ trPc = "loop"
    /\ \E r \in ChildDraws :
          IF trChild < r
          THEN /\ trEvents' = Append(trEvents, [op |-> "start", span |-> ChildSpan(trChild),
                                                attrs |-> ChildAttrs(trChild, trPayloadSize)])
               /\ trPc' = "child"
          ELSE /\ trEvents' = trEvents
               /\ trPc' = "return"
    /\ UNCHANGED <<trPayloadSize, trChild, trPadding>>
    /\ UNCHANGED NotTrace

\* childSpan.End(); i++
EndChild ==
    /\ trPc = "child"
    /\ trEvents' = Append(trEvents, [op |-> "end", span |-> ChildSpan(trChild)])
    /\ trChild' = trChild + 1
    /\ trPc' = "loop"
    /\ UNCHANGED <<trPayloadSize, trPadding>>
    /\ UNCHANGED NotTrace

\* return nil: the deferred span.End() of the parent runs
EndParent ==
    /\ trPc = "return"
    /\ trEvents' = Append(trEvents, [op |-> "end", span |-> ParentSpan])
    /\ trPc' = "done"
    /\ UNCHANGED <<trPayloadSize, trChild, trPadding>>
    /\ UNCHANGED NotTrace

\* GeneratePadding called with the size as it is, whatever its sign
CallGeneratePadding ==
    /\ ~ trPadding.called
    /\ trPadding' = [called |-> TRUE, text |-> GeneratePadding(trPayloadSize)]
    /\ UNCHANGED <<trPayloadSize, trPc, trChild, trEvents>>
    /\ UNCHANGED NotTrace

TraceNext == StartParent \/ StartChild \/ EndChild \/ EndParent \/ CallGeneratePadding

SpecTrace == TraceInit /\ [][TraceNext]_vars

----------------------------------------------------------------------------
(* Properties of the endpoint resolver *)

\* the default ports the documentation gives: 80 for http, 443 for the others
DocumentedDefaultPort(protocol) ==
    IF protocol = "http" THEN <<"8", "0">> ELSE <<"4", "4", "3">>

\* C1: a well-formed endpoint text without a port resolves to the documented
\* default port of its protocol: 443 for grpc, grpcs and https, 80 for http.
C1_DefaultPortAsDocumented ==
    (epResult.called /\ WellFormed(epParts) /\ epParts.port.kind = "none")
        => (/\ ~ epResult.err
            /\ epResult.Port = DocumentedDefaultPort(epParts.scheme.proto))

\* C2: a well-formed endpoint text with an explicit port resolves to that port,
\* character for character, with the host and the protocol of the text.
C2_ExplicitPortVerbatim ==
    (epResult.called /\ WellFormed(epParts) /\ epParts.port.kind = "digits")
        => (/\ ~ epResult.err
            /\ epResult.Port = epParts.port.digits
            /\ epResult.Host = BareHost(epParts.host)
            /\ epResult.Protocol = epParts.scheme.proto)

\* http://localhost:8080 has been resolved to localhost, 8080, not secure
C2_Witness ==
    /\ epInput = <<"h", "t", "t", "p", ":", "/", "/",
                   "l", "o", "c", "a", "l", "h", "o", "s", "t", ":", "8", "0", "8", "0">>
    /\ epResult.called
    /\ ~ epResult.err
    /\ epResult.Host = <<"l", "o", "c", "a", "l", "h", "o", "s", "t">>
    /\ epResult.Port = <<"8", "0", "8", "0">>
    /\ epResult.Protocol = "http"
    /\ ~ epResult.Secure

\* C3: a scheme literal in any letter case yields its protocol, and every
\* Endpoint returned is secure exactly when its protocol is grpcs or https.
C3_SchemeCaseAndSecure ==
    epResult.called =>
        /\ WellFormed(epParts) =>
              (~ epResult.err /\ epResult.Protocol = epParts.scheme.proto)
        /\ ~ epResult.err =>
              (epResult.Secure <=> epResult.Protocol \in {"grpcs", "https"})

\* gRpCs://h has been resolved to the secure protocol grpcs
C3_Witness ==
    /\ epParts.scheme.text = <<"g", "R", "p", "C", "s">>
    /\ epResult.called
    /\ ~ epResult.err
    /\ epResult.Protocol = "grpcs"
    /\ epResult.Secure

\* the texts ParseEndpoint must refuse, told from what they were made of
EmptyText(parts) == EndpointText(parts) = <<>>

UnknownScheme(parts) == parts.scheme.proto = "none" \/ parts.sep # <<":", "/", "/">>

NoHost(parts) ==
    parts.scheme.proto \in Protocols /\ parts.sep = <<":", "/", "/">> /\ parts.host = <<>>

Unparseable(parts) ==
    /\ parts.sep = <<":", "/", "/">>
    /\ \/ parts.scheme.text = <<>>
       \/ parts.host = <<"a", " ", "b">>
       \/ parts.port.kind = "bad"

\* C4: an empty text, a text url.Parse refuses, a text whose scheme is none of
\* the four (a bare host:port among them) and a text without a host are all
\* answered with an error and no Endpoint.
C4_InvalidEndpointRejected ==
    (epResult.called
     /\ (EmptyText(epParts) \/ Unparseable(epParts) \/ UnknownScheme(epParts) \/ NoHost(epParts)))
        => (/\ epResult.err
            /\ DOMAIN epResult = {"called", "err", "why"}
            /\ EmptyText(epParts) => epResult.why = "endpoint cannot be empty"
            /\ Unparseable(epParts) => epResult.why = "failed to parse endpoint")

\* grpc:// has been refused for its empty host
C4_Witness ==
    /\ epInput = <<"g", "r", "p", "c", ":", "/", "/">>
    /\ epResult.called
    /\ epResult.err
    /\ epResult.why = "host cannot be empty"

\* the other three refusals happen too
C4_WitnessOthers ==
    /\ epResult.called
    /\ epResult.err
    /\ \/ epInput = <<>>
       \/ epInput = <<"l", "o", "c", "a", "l", "h", "o", "s", "t", ":", "4", "3", "1", "7">>
       \/ epInput = <<"g", "r", "p", "c", ":", "/", "/", "h", ":", "x", "1">>

----------------------------------------------------------------------------
(* Properties of the size parser *)

\* the binary multipliers of the grammar as powers of two: 1, 1024, 1024^2, 1024^3
GrammarShift(unit) ==
    CASE ToLower(unit) \in {<<>>, <<"b">>}           -> 0
      [] ToLower(unit) \in {<<"k", "b">>, <<"k">>}   -> 10
      [] ToLower(unit) \in {<<"m", "b">>, <<"m">>}   -> 20
      [] ToLower(unit) \in {<<"g", "b">>, <<"g">>}   -> 30

\* floor(n * multiplier) for the decimal number n of the literal, computed exactly
ExactBytes(parts) ==
    LET dot == IndexChar(parts.num, ".")
        d   == IF dot = 0 THEN 0 ELSE Len(parts.num) - dot
        a   == DigitsToBig(SelectSeq(parts.num, IsDigit), <<>>)
    IN  DivPow10(ShiftLeft(a, GrammarShift(parts.unit)), d).q

\* C5: for every literal made of a decimal number n and a unit, ParseSize
\* returns n times the binary multiplier of the unit, truncated to an integer.
C5_BytesAreNumberTimesMultiplier ==
    (szResult.called /\ ValidLiteral(szParts))
        => (/\ ~ szResult.err
            /\ szResult.bytes = [neg |-> FALSE, mag |-> ExactBytes(szParts)])

\* C6: a text without a leading number, a number that is no decimal number and
\* a unit outside the grammar are answered with an error; the empty text is
\* answered with 0 and no error.
C6_MalformedSizeRejected ==
    szResult.called =>
        /\ (szParts.num = <<>> /\ szParts.unit # <<>>)
              => (szResult.err /\ szResult.why = "invalid size format")
        /\ (szParts.num # <<>> /\ ~ IsDecimal(szParts.num))
              => (szResult.err /\ szResult.why = "invalid size number")
        /\ (IsDecimal(szParts.num) /\ szParts.unit \notin KnownUnits)
              => (szResult.err /\ szResult.why = "unknown size unit")
        /\ szInput = <<>>
              => (~ szResult.err /\ szResult.bytes = [neg |-> FALSE, mag |-> <<>>])

\* 7xb has been refused for its unit
C6_Witness ==
    /\ szInput = <<"7", "x", "b">>
    /\ szResult.called
    /\ szResult.err
    /\ szResult.why = "unknown size unit"

\* C7 as stated: every valid literal gives the same byte count in upper case,
\* with white space before or after it, with white space between the number and
\* the unit, and when parsed a second time.
C7_SameBytesForEverySpelling ==
    (szAgain.called /\ ValidLiteral(szParts)) => szAgain = szResult

\* C7 as amended: every valid literal gives the same byte count in upper case,
\* with white space before or after it and when parsed a second time; white
\* space between the number and a unit is refused as an unknown unit.
C7_SameBytesButNoInnerSpace ==
    (szAgain.called /\ ValidLiteral(szParts)) =>
        /\ ~ szResult.err
        /\ (szParts.how # "gap" \/ szParts.unit = <<>>) => szAgain = szResult
        /\ (szParts.how = "gap" /\ szParts.unit # <<>>)
              => (szAgain.err /\ szAgain.why = "unknown size unit")

\* 1.5mb and 1.5MB have both been parsed to 1572864 bytes
C7_Witness ==
    /\ szInput = <<"1", ".", "5", "m", "b">>
    /\ szVariant = <<"1", ".", "5", "M", "B">>
    /\ szAgain.called
    /\ ~ szAgain.err
    /\ szAgain.bytes = [neg |-> FALSE, mag |-> ToBig(1572864)]
    /\ szResult = szAgain

----------------------------------------------------------------------------
(* Properties of the log body *)

\* C8: when the requested size T is larger than the length L of the unpadded
\* document, the length S of the returned body satisfies T - 100 <= S <= T.
C8_BodyWithinHeadroomOfTarget ==
    (lgBody.made /\ lgTarget > lgBody.unpadded)
        => (lgTarget - 100 <= lgBody.len /\ lgBody.len <= lgTarget)

\* a body has been padded with the filler field and is shorter than the target
C8_Witness ==
    /\ lgBody.made
    /\ lgTarget > lgBody.unpadded + 100
    /\ lgBody.padded
    /\ "payload_data" \in lgBody.keys
    /\ lgBody.len > lgBody.unpadded
    /\ lgBody.len < lgTarget

\* a target at most 100 bytes above the document leaves the body as it is
C8_WitnessUnpadded ==
    /\ lgBody.made
    /\ lgTarget > lgBody.unpadded
    /\ ~ lgBody.padded
    /\ lgBody.len = lgBody.unpadded

\* the top-level keys every log document has
MandatedKeys == {"timestamp", "level", "message", "service", "environment", "version", "host",
                 "pod_id", "request_id", "trace_id", "span_id", "http", "user"}

\* C26: a log document has every mandated top-level key; it has an error
\* section exactly when the level is ERROR, a filler field only when the target
\* size is above the unpadded size plus the headroom, and no other top-level
\* key but the optional database section.
C26_TopLevelKeys ==
    lgBody.made =>
        /\ MandatedKeys \subseteq lgBody.keys
        /\ "error" \in lgBody.keys <=> lgBody.level = "ERROR"
        /\ "payload_data" \in lgBody.keys => lgTarget > lgBody.unpadded + ReservedBytes
        /\ lgBody.keys \subseteq MandatedKeys \cup {"error", "database", "payload_data"}

\* a padded ERROR document with a database section
C26_Witness ==
    /\ lgBody.made
    /\ lgBody.level = "ERROR"
    /\ lgBody.keys = MandatedKeys \cup {"error", "database", "payload_data"}

\* an unpadded document with the mandated keys alone
C26_WitnessPlain ==
    /\ lgBody.made
    /\ lgTarget = 0
    /\ lgBody.keys = MandatedKeys

----------------------------------------------------------------------------
(* Properties of the generation loop *)

\* C9: for every rate the flag accepts and every duration, the loop of every
\* signal type takes its deadline branch and the Generate function returns.
C9_LoopReturnsAtDeadline == <>(lpPc = "returned" /\ Len(lpPrinted) = 1)

\* the same for the rates the ticker can be built with
C9_ReturnsUnlessTickerPanics == TickerPanics(lpRate) \/ C9_LoopReturnsAtDeadline

\* C10: once the deadline timer has fired, no tick handler starts.
C10_NoTickAfterDeadline ==
    [][lpTimer.state = "fired" => ~ (lpPc # "handler" /\ lpPc' = "handler")]_vars

\* the places of an event in the record of the run's end
At(e) == {i \in 1 .. Len(lpEvents) : lpEvents[i] = e}

\* every e2 in the record has an e1 before it
Precedes(e1, e2) == \A j \in At(e2) : \E i \in At(e1) : i < j

C12_ReportedOnceAndFinal ==
    /\ Len(lpPrinted) <= 1
    /\ lpPc = "returned" => Len(lpPrinted) = 1
    /\ Len(lpPrinted) = 1 => lpCount = lpPrinted[1]

\* a run has returned after reporting the two ticks it handled
C12_Witness ==
    /\ lpPc = "returned"
    /\ lpPrinted = <<2>>
    /\ lpCount = 2

\* ceil(D * R) for a duration of D clock steps and a rate of R per second
CeilDR(D, R) == (D * R + Second - 1) \div Second

\* C13: for a positive rate the reported count never exceeds ceil(D * R), and
\* at most one tick waits behind a running handler.
C13_CountAtMostCeilDR ==
    /\ lpTicker.C <= 1
    /\ (lpRate > 0 /\ lpPrinted # <<>>) => lpPrinted[1] <= CeilDR(lpDuration, lpRate)

\* C14: a tick whose record fails is counted like any other, one for the tick,
\* and leaves the loop in its select, where later ticks are handled until the
\* deadline; only the deadline ends the loop.
C14_FailedTickCountedLoopGoesOn ==
    [][/\ (lpPc = "handler" /\ lpPc' # "handler")
            => (lpCount' = lpCount + 1 /\ lpPc' = "select")
       /\ lpTickFault' # lpTickFault
            => (lpPc = "handler" /\ lpTickFault' = lpCount' /\ lpPc' = "select")
       /\ (lpPc = "select" /\ lpPc' # "select") => lpPc' \in {"handler", "deadline"}]_vars

\* the first tick failed, a second tick was handled, and the run returned
C14_Witness ==
    /\ lpTickFault = 1
    /\ lpCount = 2
    /\ lpPrinted = <<2>>
    /\ lpPc = "returned"

\* the loop is running: it waits in select or handles a tick
Running == lpPc \in {"select", "handler"}

\* C22: the loop leaves the running state only by taking the deadline, after
\* the deadline timer has fired; no count, failed tick or other event ends it.
C22_OnlyDeadlineEndsLoop ==
    [][(Running /\ ~ Running') =>
          (lpPc' = "deadline" /\ lpTimer'.state = "fired" /\ lpNow >= lpTimer.next)]_vars

\* the loop has gone on after a failed tick and is left by the deadline
C22_Witness == lpPc = "deadline" /\ lpTickFault = 1 /\ lpCount >= 2

\* a tick is taken from the ticker, by the select or handed to it
TickTaken == lpActive' = lpActive + 1

\* C23: ticks are handled one at a time in the order they were sent: never are
\* two handlers in progress, a tick or the deadline is taken only when no
\* handler is in progress, every tick taken was sent after the one taken
\* before it, and count is written only by the loop when a handler returns.
C23_OneTickAtATimeInOrder ==
    [][/\ lpActive' <= 1
       /\ TickTaken => (lpActive = 0 /\ lpLast' > lpLast)
       /\ (lpPc' = "deadline" /\ lpPc # "deadline") => lpActive = 0
       /\ lpCount' # lpCount => (lpPc = "handler" /\ lpActive = 1 /\ lpCount' = lpCount + 1)
      ]_vars

\* a tick and the deadline wait while the second tick is handled
C23_Witness ==
    /\ lpPc = "handler"
    /\ lpActive = 1
    /\ lpCount = 1
    /\ lpTicker.C = 1
    /\ lpTimer.C = 1
    /\ lpSent > lpLast

----------------------------------------------------------------------------
(* Properties of a whole run *)

SetupFaults == {"endpoint", "size", "duration", "resource", "exporter", "new exporter",
                "instruments"}

\* the run ends with a setup error
SetupFailed == lpPc \in {"failing", "failed"}

\* C15 as stated: a setup error ends the run with exit code 1, and in that run
\* no timer is started, no tick is handled and nothing is sent.
C15_SetupErrorBeforeAnything ==
    /\ lpFaults \cap SetupFaults # {} => SetupFailed
    /\ SetupFailed =>
          /\ lpFaults \cap SetupFaults # {}
          /\ lpTicker = Unset /\ lpTimer = Unset
          /\ lpCount = 0 /\ lpPrinted = <<>>
          /\ ~ lpProbed
    /\ lpPc = "failed" => ExitCode(lpPc) = 1

\* C15 as amended: a setup error ends the run with exit code 1, and in that run
\* no timer is started and no tick is handled; nothing is sent but the test
\* span of a verbose trace run whose second exporter cannot be built.
C15_SetupErrorBeforeAnyTick ==
    /\ lpFaults \cap SetupFaults # {} => SetupFailed
    /\ SetupFailed =>
          /\ lpFaults \cap SetupFaults # {}
          /\ lpTicker = Unset /\ lpTimer = Unset
          /\ lpCount = 0 /\ lpPrinted = <<>>
          /\ lpProbed <=> (/\ lpSignal = "traces" /\ lpVerbose
                           /\ lpFaults \cap SetupFaults = {"new exporter"})
    /\ lpPc = "failed" => ExitCode(lpPc) = 1

\* a metrics run has ended with an error from making its instruments, after
\* the provider was shut down
C15_Witness ==
    /\ lpPc = "failed"
    /\ lpSignal = "metrics"
    /\ lpFaults = {"instruments"}
    /\ lpEvents = <<"exporter.New", "provider.Shutdown">>
    /\ lpTimer = Unset

\* a verbose trace run has ended with an error after its test span was sent
C15_WitnessProbe ==
    /\ lpPc = "failed"
    /\ lpProbed
    /\ lpFaults = {"new exporter"}
    /\ lpCount = 0

\* C16: a run that has taken its deadline branch ends with exit code 0 and in
\* no other way, whichever ticks, flush or shutdown failed in it.
C16_DeadlineRunSucceeds ==
    /\ lpPrinted # <<>> => lpPc \in {"flush", "returning", "returned"}
    /\ lpPc = "returned" => (lpPrinted # <<>> /\ ExitCode(lpPc) = 0)

\* a metrics run has returned although a tick, the final flush and the
\* shutdown of the provider failed
C16_Witness ==
    /\ lpPc = "returned"
    /\ ExitCode(lpPc) = 0
    /\ lpTickFault = 1
    /\ lpFaults = {"flush", "provider.Shutdown"}

\* the calls into exporter and provider that the run has made
CallsMade == {lpEvents[i] : i \in 1 .. Len(lpEvents)} \cap ExternalCalls

\* C17: every call into the exporter or the provider (construction, flush,
\* provider shutdown, exporter shutdown) is made with a context that expires.
C17_EveryCallHasTimeout == \A call \in CallsMade : CallTimeout(lpSignal, call) > 0

----------------------------------------------------------------------------
(* Properties of the log pipeline *)

\* twice an integer, without a word's limit
Twice(a) == [neg |-> a.neg, mag |-> ShiftLeft(a.mag, 1)]

\* the batch sizes whose double fits the word and that are limits of their own
Ordinary(batchSize) ==
    /\ ~ Signed(batchSize).neg
    /\ batchSize # <<>>
    /\ BitLen(batchSize) < Int64Bits

\* C18: for every batch size B given by the operator, an outbound batch of the
\* log pipeline holds at most B records, the queue capacity is at least 2*B,
\* and the records waiting never exceed the queue capacity.
C18_BatchAtMostBQueueAtLeast2B ==
    bpOptions.called =>
        /\ bpBatch > 0 => SignedLeq(Signed(Word(bpBatch)), Signed(bpBatchSize))
        /\ SignedLeq(Twice(Signed(bpBatchSize)), Signed(bpOptions.MaxQueueSize))
        /\ Applicable(bpOptions) =>
               SignedLeq(Signed(Word(bpQueue)), Signed(bpOptions.MaxQueueSize))

\* for a batch size from 1 up to a quarter of the word's range the three
\* bounds hold
C18_HoldsForOrdinarySizes == Ordinary(bpBatchSize) => C18_BatchAtMostBQueueAtLeast2B

----------------------------------------------------------------------------
(* Properties of the exporter *)

\* C19: for every signal type, an exporter built for a gRPC endpoint has a
\* keepalive policy: a periodic ping, a bounded timeout, and pings permitted
\* without an active stream.
C19_GrpcExporterHasKeepalive ==
    (exExporter.called /\ epResult.Protocol \in {"grpc", "grpcs"}) =>
        /\ exExporter.Keepalive.set
        /\ exExporter.Keepalive.Time > 0
        /\ exExporter.Keepalive.Timeout > 0
        /\ exExporter.Keepalive.PermitWithoutStream

\* the trace exporter has the policy, the first one and the one a verbose run
\* builds after its test span
C19_TraceExporterHasKeepalive == exSignal = "traces" => C19_GrpcExporterHasKeepalive

\* C20: for every signal type, endpoint protocol and skipTLSVerify, the
\* exporter targets host:port, over gRPC exactly for grpc and grpcs and over
\* HTTP exactly for http and https; it uses TLS exactly when the endpoint is
\* secure; it skips certificate validation only when the endpoint is secure and
\* skipTLSVerify is set; every TLS configuration it installs has the minimum
\* TLS version.
C20_TransportAndTLS ==
    exExporter.called =>
        /\ exExporter.Endpoint = epResult.Host \o <<":">> \o epResult.Port
        /\ exExporter.transport = "grpc" <=> epResult.Protocol \in {"grpc", "grpcs"}
        /\ exExporter.transport = "http" <=> epResult.Protocol \in {"http", "https"}
        /\ (~ exExporter.Insecure) <=> epResult.Secure
        /\ exExporter.Insecure => ~ exExporter.TLS.installed
        /\ (exExporter.TLS.installed /\ exExporter.TLS.InsecureSkipVerify)
               => (epResult.Secure /\ exInsecureSkip)
        /\ exExporter.TLS.installed => exExporter.TLS.MinVersion = "VersionTLS12"

\* a rebuilt trace exporter for a secure gRPC endpoint that skips validation
C20_Witness ==
    /\ exExporter.called
    /\ exRebuilt
    /\ epResult.Protocol = "grpcs"
    /\ exExporter.transport = "grpc"
    /\ exExporter.TLS.installed
    /\ exExporter.TLS.InsecureSkipVerify
    /\ exExporter.Endpoint = <<"h", ":", "4", "4", "3">>

\* a log exporter for https that validates certificates with the defaults
C20_WitnessHttps ==
    /\ exExporter.called
    /\ exSignal = "logs"
    /\ epResult.Protocol = "https"
    /\ exExporter.transport = "http"
    /\ ~ exExporter.Insecure
    /\ ~ exExporter.TLS.installed
----------------------------------------------------------------------------
(* Properties of the instruments of a metrics run *)

\* C21: when --size is given for a metrics run the points of a tick carry a
\* padding attribute, and without --size they carry none.
C21_MetricPaddingWhenSizeGiven ==
    mtCount > 0 => ("payload.data" \in mtAttrs <=> mtPayloadSize > 0)
----------------------------------------------------------------------------
(* Properties of a trace *)

\* the places in trEvents where a child span is started
ChildStarts == {j \in 1..Len(trEvents) :
                   trEvents[j].op = "start" /\ trEvents[j].span.name = "child-operation"}

IsEnd(j, span) == trEvents[j].op = "end" /\ trEvents[j].span = span

\* C24: a trace has one parent span and 1 to 3 child spans with the ids 0, 1,
\* ... in order; a child is started after the parent, and ended before the next
\* child is started; the parent is ended only after its last child has ended.
C24_ParentAndOrderedChildren ==
    /\ trEvents # <<>> =>
          (trEvents[1].op = "start" /\ trEvents[1].span = ParentSpan)
    /\ \A j \in 2..Len(trEvents) : ~ (trEvents[j].op = "start" /\ trEvents[j].span = ParentSpan)
    /\ \A j \in ChildStarts :
          /\ j > 1
          /\ trEvents[j].span.i = Cardinality({k \in ChildStarts : k < j})
          /\ trEvents[j].attrs["child.id"] = trEvents[j].span.i
          /\ j < Len(trEvents) => IsEnd(j + 1, trEvents[j].span)
    /\ \A j \in 1..Len(trEvents) :
          IsEnd(j, ParentSpan) => (j = Len(trEvents) /\ j > 1 /\ trEvents[j - 1].op = "end")
    /\ trPc = "done" =>
          /\ IsEnd(Len(trEvents), ParentSpan)
          /\ Cardinality(ChildStarts) \in 1..3
          /\ Len(trEvents) = 2 + (2 * Cardinality(ChildStarts))

\* a trace with three children is complete
C24_Witness ==
    /\ trPc = "done"
    /\ Cardinality(ChildStarts) = 3
    /\ trEvents[6].span = ChildSpan(2)
    /\ IsEnd(7, ChildSpan(2))

\* C25: GeneratePadding(n) is n bytes long for n > 0 and empty for n <= 0; the
\* parent span and every child span of a trace carry a padding attribute of
\* exactly payloadSize bytes when payloadSize > 0, and none when it is 0.
C25_PaddingOfExactSize ==
    /\ trPadding.called =>
          Len(trPadding.text) = (IF trPayloadSize > 0 THEN trPayloadSize ELSE 0)
    /\ \A j \in 1..Len(trEvents) :
          trEvents[j].op = "start" =>
             /\ "payload.data" \in DOMAIN trEvents[j].attrs <=> trPayloadSize > 0
             /\ trPayloadSize > 0 => Len(trEvents[j].attrs["payload.data"]) = trPayloadSize

\* a padded trace with two children, and the filler itself
C25_Witness ==
    /\ trPc = "done"
    /\ trPayloadSize = MaxPad
    /\ Cardinality(ChildStarts) = 2
    /\ trPadding.called
    /\ Len(trEvents[4].attrs["payload.data"]) = MaxPad

\* without a size no span has the attribute
C25_WitnessNoSize ==
    /\ trPc = "done"
    /\ trPayloadSize = 0
    /\ trPadding.called
    /\ trPadding.text = <<>>
    /\ DOMAIN trEvents[2].attrs = {"child.type", "child.id"}

----------------------------------------------------------------------------
(* Properties of shutdown *)

\* C29: no record is submitted to an exporter or a provider whose shutdown has
\* begun.  A tick is taken only while the provider and the exporter of the run
\* are up; no shutdown begins while a handler runs, and but for the test
\* provider's none begins before the function leaves; the test provider of a
\* verbose trace run is shut down with its exporter before any tick, a new
\* exporter takes its place, and a test span that could not be flushed does
\* not end the run.
C29_NoSubmitAfterShutdown ==
    [][/\ TickTaken => (lpExporter # "none" /\ {"provider", lpExporter} \cap lpDown = {})
       /\ lpDown' # lpDown =>
            /\ lpActive = 0
            /\ lpPc \in {"probe", "returning", "failing", "panicking"}
       /\ lpPc = "probe" =>
            /\ lpCount = 0 /\ lpTicker = Unset
            /\ {"test provider", lpExporter} \subseteq lpDown'
            /\ "new exporter" \notin lpFaults' =>
                  /\ lpPc' = "provider"
                  /\ lpExporter' # lpExporter
                  /\ lpExporter' \notin lpDown'
      ]_vars

\* a verbose trace run whose test span could not be flushed has handled ticks
\* through its second exporter and has shut everything down
C29_Witness ==
    /\ lpPc = "returned"
    /\ lpSignal = "traces"
    /\ lpVerbose
    /\ "probe" \in lpFaults
    /\ lpCount > 1
    /\ lpExporter = "second"
    /\ lpDown = {"test provider", "first", "provider", "second"}

\* a logs run has handled ticks and has shut its provider and exporter down
C29_WitnessLogs ==
    /\ lpPc = "returned"
    /\ lpSignal = "logs"
    /\ lpCount > 1
    /\ lpDown = {"provider", "first"}
    /\ lpEvents = <<"exporter.New", "report", "timer.Stop", "ticker.Stop",
                    "provider.Shutdown", "exporter.Shutdown">>

----------------------------------------------------------------------------
(* Properties of Endpoint.String *)

\* the second result is an Endpoint equal to the first in every field
SameEndpoint ==
    /\ ~ epAgain.err
    /\ epAgain.Protocol = epResult.Protocol
    /\ epAgain.Host = epResult.Host
    /\ epAgain.Port = epResult.Port
    /\ epAgain.Secure = epResult.Secure

\* C28: for every text ParseEndpoint accepts with result e, the text of
\* e.String() is accepted again and gives an Endpoint equal to e in protocol,
\* host, port and secure flag, and the second call leaves e as it was.
C28_StringParsesBackToEqual ==
    epAgain.called => (SameEndpoint /\ epResult = ParseEndpoint(epInput))

\* the round trip succeeds for every accepted text whose host has no percent
\* sign, an IPv6 literal included
C28_HoldsWithoutPercent ==
    (epAgain.called /\ IndexChar(epResult.Host, "%") = 0)
        => (SameEndpoint /\ epResult = ParseEndpoint(epInput))

\* the text rendered for an IPv6 literal without a port has been parsed again
C28_WitnessIPv6 ==
    /\ epAgain.called
    /\ epResult.Host = <<":", ":", "1">>
    /\ epParts.port.kind = "none"
    /\ SameEndpoint

====
